---- MODULE Spec2Model ----
(***************************************************************************)
(* MedScribe: job record store (api/services/job_manager.py), background   *)
(* tasks (tasks.py), submission endpoints (api/routes/jobs.py) and the     *)
(* processing pipeline (pipeline.py).                                      *)
(*                                                                         *)
(* The specifications share the variables:                                 *)
(*   StoreSpec  the JobManager API called directly on a manager instance   *)
(*   PipeSpec   process / aprocess called directly with an observer        *)
(*   Spec       the served system: submission endpoints and Celery tasks   *)
(*   PairSpec, StreamSpec, StreamLiveSpec, ProgressSpec, SoapSpec and      *)
(*   LoadSpec are introduced where they are defined.                       *)
(***************************************************************************)
EXTENDS Integers, Sequences, FiniteSets, TLC

\* ------------------------------------------------------------- bounds
MaxJobs == 2      \* job ids that can be issued
MaxClock == 1     \* readings of datetime.utcnow() run over 0..MaxClock
MaxFaults == 1    \* Redis commands that may fail in one behaviour
MaxOps == 3       \* direct JobManager calls in one StoreSpec behaviour
MaxSubmits == 1   \* requests the submission endpoints accept in one Spec behaviour
MaxTextLen == 4   \* tokens of an arbitrary generator response
MaxAnswerLen == 3 \* tokens of an arbitrary answer of the chain to generate
MaxCalls == 2     \* concurrent atranscribe calls on one transcriber

\* ------------------------------------------------------------- values
None == <<>>
Some(x) == <<x>>

JobIdPool == <<"j1", "j2", "j3", "j4">>
JobIds == {JobIdPool[i] : i \in 1..MaxJobs}

\* JobManager instances: the endpoints' singleton (dependencies.get_job_manager)
\* and the instances the worker-side code constructs with JobManager().
Managers == {"api", "worker"}

EmptyMeta == [k \in {} |-> "x"]
Metas == {EmptyMeta, [filename |-> "visit.wav"]}
MetaArgs == {None} \cup {Some(x) : x \in Metas}

\* Strings that are built by concatenation are sequences of tokens;
\* `sub in s` is a run of consecutive tokens.
Contains(s, sub) ==
    \E i \in 0..(Len(s) - Len(sub)) :
        \A k \in 1..Len(sub) : s[i + k] = sub[k]

VARIABLES
    useRedis,   \* JobManager.redis_client is set (ping succeeded)
    redis,      \* Redis key job:{id} -> None | Some(json text)
    mem,        \* JobManager._jobs of each instance: id -> None | Some(record)
    chan,       \* messages published on job_updates:{id}, oldest first
    clock,      \* datetime.utcnow()
    faults,     \* Redis commands that have failed so far
    ops,        \* direct JobManager calls made so far (StoreSpec)
    issued,     \* ids uuid.uuid4() has returned to create_job
    ret,        \* the last direct JobManager call and what it returned
    task,       \* per job: the submission and the Celery task working on it
    file,       \* per job: the uploaded temporary audio file exists
    run,        \* per runner: the ProcessingResult of a process/aprocess call
    ws,         \* the handler of one WebSocket subscriber (websocket_job_stream)
    prog,       \* the last two calls of the _ProgressHelper functions
    soap,       \* the last call of the SOAP generator: its input and what it gave
    whisper     \* one WhisperTranscriber and the threads running transcribe on it

vars == <<useRedis, redis, mem, chan, clock, faults, ops, issued, ret, task, file, run, ws,
          prog, soap, whisper>>

\* ------------------------------------------------------------- JSON
\* json.dumps / json.loads of a job record whose values are JSON-native
\* (model_dump(mode='json') results, str-keyed metadata).
JsonDumps(rec) == [json |-> rec]
JsonLoads(text) == text.json

\* dict.update: keys of the right operand win, new keys are added.
DictUpdate(d, u) ==
    [k \in (DOMAIN d) \cup (DOMAIN u) |-> IF k \in DOMAIN u THEN u[k] ELSE d[k]]

\* ------------------------------------------------------------- JobManager
\* The Redis commands that may fail at this call.
FaultChoices ==
    IF useRedis /\ faults < MaxFaults THEN {"none", "setex", "publish"} ELSE {"none"}

\* uuid.uuid4(): an id no earlier call was given. Ids are opaque, so the
\* unused id of least index stands for any of them.
FreshId == JobIdPool[CHOOSE i \in 1..MaxJobs :
                        /\ JobIdPool[i] \notin issued
                        /\ \A k \in 1..(i - 1) : JobIdPool[k] \in issued]

\* job_data of create_job
NewJobData_BadInit(job_id, job_type, metadata) ==
    [job_id |-> job_id, job_type |-> job_type, status |-> "processing",
     progress |-> 0, current_stage |-> None, result |-> None, error |-> None,
     metadata |-> IF metadata = None THEN EmptyMeta ELSE metadata[1],
     created_at |-> clock, updated_at |-> clock]

NewJobData(job_id, job_type, metadata) ==
    [job_id |-> job_id, job_type |-> job_type, status |-> "pending",
     progress |-> 0, current_stage |-> None, result |-> None, error |-> None,
     metadata |-> IF metadata = None THEN EmptyMeta ELSE metadata[1],
     created_at |-> clock, updated_at |-> clock]

\* create_job: setex job:{id} (Redis) or _jobs[id] = job_data (memory).
\* A failing setex raises out of create_job and stores nothing.
create_job(m, job_id, job_type, metadata, fault) ==
    LET job_data == NewJobData(job_id, job_type, metadata) IN
    IF useRedis
    THEN /\ redis' = IF fault = "none"
                     THEN [redis EXCEPT ![job_id] = Some(JsonDumps(job_data))]
                     ELSE redis
         /\ UNCHANGED <<mem, chan>>
    ELSE /\ mem' = [mem EXCEPT ![m][job_id] = Some(job_data)]
         /\ UNCHANGED <<redis, chan>>

\* get_job against given store contents: GET job:{id} and json.loads, or
\* _jobs.get(id).
get_job_in(rd, mm, m, job_id) ==
    IF useRedis
    THEN IF rd[job_id] # None THEN Some(JsonLoads(rd[job_id][1])) ELSE None
    ELSE mm[m][job_id]

get_job(m, job_id) == get_job_in(redis, mem, m, job_id)

\* How update_job ends: "ok", or the exception it raises.
UpdateOutcome(m, job_id, fault) ==
    IF get_job(m, job_id) = None THEN "not_found"
    ELSE IF useRedis /\ fault = "setex" THEN "setex_failed"
    ELSE IF useRedis /\ fault = "publish" THEN "publish_failed"
    ELSE "ok"

\* update_job without the not-found check: an unknown id is inserted.
update_job_Upsert(m, job_id, updates, fault) ==
    LET old == IF get_job(m, job_id) = None THEN [job_id |-> job_id, updated_at |-> clock]
               ELSE get_job(m, job_id)[1]
        job_data == [DictUpdate(old, updates) EXCEPT !.updated_at = clock]
    IN  IF useRedis
        THEN /\ redis' = [redis EXCEPT ![job_id] = Some(JsonDumps(job_data))]
             /\ chan' = [chan EXCEPT ![job_id] = Append(@, JsonDumps(job_data))]
             /\ UNCHANGED mem
        ELSE /\ mem' = [mem EXCEPT ![m][job_id] = Some(job_data)]
             /\ UNCHANGED <<redis, chan>>

\* update_job: read, merge, refresh updated_at, setex, publish.
\* fault = "setex": setex raises, nothing is stored or published;
\* fault = "publish": the record is stored and publish raises.
update_job(m, job_id, updates, fault) ==
    IF get_job(m, job_id) = None
    THEN UNCHANGED <<redis, mem, chan>>
    ELSE LET job_data == [DictUpdate(get_job(m, job_id)[1], updates)
                          EXCEPT !.updated_at = clock]
         IN  IF useRedis
             THEN /\ redis' = IF fault = "setex" THEN redis
                              ELSE [redis EXCEPT ![job_id] = Some(JsonDumps(job_data))]
                  /\ chan' = IF fault = "none"
                             THEN [chan EXCEPT ![job_id] = Append(@, JsonDumps(job_data))]
                             ELSE chan
                  /\ UNCHANGED mem
             ELSE /\ mem' = [mem EXCEPT ![m][job_id] = Some(job_data)]
                  /\ UNCHANGED <<redis, chan>>

ProgressUpdates(progress, stage) ==
    [status |-> "processing", progress |-> progress, current_stage |-> Some(stage)]

\* set_job_completed that leaves the progress as it was.
CompletedUpdates_KeepProgress(result) ==
    [status |-> "completed", current_stage |-> Some("completed"), result |-> Some(result)]

CompletedUpdates(result) ==
    [status |-> "completed", progress |-> 100, current_stage |-> Some("completed"),
     result |-> Some(result)]

\* set_job_failed that also resets the progress.
FailedUpdates_Reset(error) ==
    [status |-> "failed", error |-> Some(error), progress |-> 0]

FailedUpdates(error) ==
    [status |-> "failed", error |-> Some(error)]

set_job_progress(m, job_id, progress, stage, fault) ==
    update_job(m, job_id, ProgressUpdates(progress, stage), fault)

set_job_completed(m, job_id, result, fault) ==
    update_job(m, job_id, CompletedUpdates(result), fault)

set_job_failed(m, job_id, error, fault) ==
    update_job(m, job_id, FailedUpdates(error), fault)

\* ------------------------------------------------------------- exceptions
\* exceptions.py: message and details of the classified errors; an
\* unclassified exception carries only its text.
Exc(cls, classified, message, details) ==
    [cls |-> cls, classified |-> classified, message |-> message, details |-> details]

AudioFileNotFoundError(file_path) ==
    Exc("AudioFileNotFoundError", TRUE,
        <<"Audio file not found: ">> \o file_path, [file_path |-> file_path])

TranscriptionFailedError(file_path, reason) ==
    Exc("TranscriptionFailedError", TRUE,
        <<"Transcription failed for ">> \o file_path \o <<": ", reason>>,
        [file_path |-> file_path, reason |-> reason])

SOAPGenerationError(reason) ==
    Exc("SOAPGenerationError", TRUE,
        <<"Failed to generate SOAP note: ", reason>>, [reason |-> reason])

Unclassified(cls, message) == Exc(cls, FALSE, message, EmptyMeta)

\* What the transcription collaborator may raise for an audio path.
TranscribeErrors(audio_path) ==
    {AudioFileNotFoundError(audio_path),
     TranscriptionFailedError(audio_path, "decode"),
     Unclassified("RuntimeError", <<"CUDA out of memory">>),
     Unclassified("RuntimeError", <<"cannot read /srv/models/whisper.pt">>)}

\* What the generation collaborator may raise.
GenerateErrors ==
    {SOAPGenerationError("empty response"),
     Unclassified("KeyError", <<"content">>)}

\* The exception update_job (or the Redis client under it) raises.
StoreError(job_id, outcome) ==
    IF outcome = "not_found"
    THEN Unclassified("ValueError", <<"Job ", job_id, " not found">>)
    ELSE Unclassified("ConnectionError", <<outcome>>)

\* ------------------------------------------------------------- pipeline
\* Pipeline runs: one per full-pipeline job, the run of a direct caller, and
\* the run of a second direct call made on the same input ("ref").
Runners == JobIds \cup {"direct", "ref"}

TRANSCRIPTION_WEIGHT == 50
GENERATION_WEIGHT == 50

transcription_progress(stage_percent) == (stage_percent * TRANSCRIPTION_WEIGHT) \div 100

\* generation_progress without the base of the first stage.
generation_progress_NoBase(stage_percent) ==
    (stage_percent * GENERATION_WEIGHT) \div 100

generation_progress(stage_percent) ==
    TRANSCRIPTION_WEIGHT + (stage_percent * GENERATION_WEIGHT) \div 100

\* Stage percentages a caller may pass (documented range 0-100).
StagePercents == 0..100

\* A recorded call of a helper function: its name, argument and return value.
HelperCall(op, stage_percent, value) ==
    [op |-> op, stage_percent |-> stage_percent, value |-> value]

NoCall == HelperCall("none", 0, 0)

\* Temporary path FileHandler.save_upload_file gives the upload of job j,
\* and the path a direct caller passes.
TempPath(j) == <<"/tmp/", j, ".wav">>
DirectPath == <<"visit.wav">>

\* Progress callbacks: none; an observer taking (status, message, progress),
\* which may raise at any invocation; the closure tasks.progress_callback
\* returns, which takes (status, message) only, so that the pipeline's
\* three-argument call raises TypeError before its body runs.
CallbackRaises(cb, choice) == cb = "task" \/ (cb = "observer" /\ choice)

IdleRun ==
    [pc |-> "idle", path |-> "none", cb |-> "none", audio_file_path |-> <<>>,
     status |-> "pending", transcription |-> None, soap_note |-> None,
     error_message |-> None, exc |-> None, calls |-> <<>>, trace |-> <<>>]

\* ProcessingResult(id, audio_file_path, status=PENDING) at the head of
\* process / aprocess.
NewResult(path, cb, audio_path) ==
    [IdleRun EXCEPT !.pc = "tr_start", !.path = path, !.cb = cb,
                    !.audio_file_path = audio_path]

\* result.model_dump(mode='json')
ModelDump(res) ==
    [status |-> res.status, audio_file_path |-> res.audio_file_path,
     transcription |-> res.transcription, soap_note |-> res.soap_note,
     error_message |-> res.error_message]

TranscriptionValue == [text |-> "transcript", language |-> "en"]
SOAPNoteValue == [subjective |-> "s", objective |-> "o", assessment |-> "a", plan |-> "p"]

\* What a run did, in order (history): "notify" the callback was invoked with
\* (status, progress); "status" result.status was assigned; "invoke" a
\* collaborator was called and returned (outcome None) or raised (Some(e)).
Event(ev, status, progress, collab, outcome) ==
    [ev |-> ev, status |-> status, progress |-> progress, collab |-> collab,
     outcome |-> outcome]

\* result.status = status
WithStatus(res, status) ==
    [res EXCEPT !.status = status,
                !.trace = Append(@, Event("status", status, 0, "none", None))]

\* The collaborator was called and returned or raised.
Invoked(res, collab, outcome) ==
    [res EXCEPT !.trace = Append(@, Event("invoke", "none", 0, collab, outcome))]

\* The callback is invoked, when there is one, with (status, message, progress).
NotifiedRes(res, status, message, progress, choice) ==
    IF res.cb = "none" THEN res
    ELSE [res EXCEPT
            !.calls = Append(@, [status |-> status, message |-> message,
                                 progress |-> progress,
                                 raised |-> CallbackRaises(res.cb, choice)]),
            !.trace = Append(@, Event("notify", status, progress, "none", None))]

Notified(r, status, message, progress, choice) ==
    NotifiedRes(run[r], status, message, progress, choice)

\* A try block that calls a failed collaborator once more before giving up.
Caught_Retry(res, e) ==
    LET t == res.trace
        failures == SelectSeq(t, LAMBDA x : x.ev = "invoke" /\ x.outcome # None)
    IN  IF t # <<>> /\ t[Len(t)].ev = "invoke" /\ Len(failures) < 2
        THEN [res EXCEPT !.pc = IF t[Len(t)].collab = "transcribe"
                                THEN "tr_call" ELSE "gen_call"]
        ELSE [res EXCEPT !.pc = "except", !.exc = Some(e)]

\* An exception leaves the try block of process / aprocess.
Caught(res, e) == [res EXCEPT !.pc = "except", !.exc = Some(e)]

CallbackError == Unclassified("CallbackError", <<"observer failed">>)

\* _notify_progress without its try/except: the callback's exception escapes.
NotifyPropagates_NoCatch(cb, choice) == CallbackRaises(cb, choice)

\* _notify_progress: does the callback's exception escape? It is caught and logged.
NotifyPropagates(cb, choice) == FALSE

\* _anotify_progress without its try/except.
ANotifyPropagates_NoCatch(cb, choice) == CallbackRaises(cb, choice)

\* _anotify_progress: the same, for sync and coroutine callbacks.
ANotifyPropagates(cb, choice) == FALSE

\* A progress checkpoint inside the try block: notify, then carry on as `next`.
Checkpoint(r, status, message, progress, choice, propagates, next) ==
    LET res == Notified(r, status, message, progress, choice) IN
    IF propagates THEN Caught(res, CallbackError)
    ELSE [res EXCEPT !.pc = next]

restOfRun == <<useRedis, redis, mem, chan, clock, faults, ops, issued, ret, task, file>>

\* ---- the blocking path: process, _run_transcription, _run_soap_generation
StatusAtTranscriptionStart_Skipped == "generating"
StatusAtTranscriptionStart == "transcribing"

RunTranscription_Start(r, choice) ==
    /\ run[r].path = "sync" /\ run[r].pc = "tr_start"
    /\ LET res == Checkpoint(r, "transcribing", <<"Starting transcription...">>,
                             transcription_progress(0), choice,
                             NotifyPropagates(run[r].cb, choice), "tr_mid")
       IN run' = [run EXCEPT ![r] =
                    IF res.pc = "except" THEN res
                    ELSE WithStatus(res, StatusAtTranscriptionStart)]
    /\ UNCHANGED restOfRun

RunTranscription_Mid(r, choice) ==
    /\ run[r].path = "sync" /\ run[r].pc = "tr_mid"
    /\ run' = [run EXCEPT ![r] =
                 Checkpoint(r, "transcribing", <<"Processing audio with Whisper...">>,
                            transcription_progress(50), choice,
                            NotifyPropagates(run[r].cb, choice), "tr_call")]
    /\ UNCHANGED restOfRun

\* self.transcriber.transcribe(result.audio_file_path)
RunTranscription_Call(r) ==
    /\ run[r].path = "sync" /\ run[r].pc = "tr_call"
    /\ \/ run' = [run EXCEPT ![r] =
                    [Invoked(run[r], "transcribe", None)
                     EXCEPT !.transcription = Some(TranscriptionValue), !.pc = "tr_done"]]
       \/ \E e \in TranscribeErrors(run[r].audio_file_path) :
            run' = [run EXCEPT ![r] = Caught(Invoked(run[r], "transcribe", Some(e)), e)]
    /\ UNCHANGED restOfRun

\* _run_transcription without its last checkpoint.
RunTranscription_Done_Silent(r, choice) ==
    /\ run[r].path = "sync" /\ run[r].pc = "tr_done"
    /\ run' = [run EXCEPT ![r].pc = "gen_start"]
    /\ UNCHANGED restOfRun

RunTranscription_Done(r, choice) ==
    /\ run[r].path = "sync" /\ run[r].pc = "tr_done"
    /\ run' = [run EXCEPT ![r] =
                 Checkpoint(r, "transcribing", <<"Transcription complete">>,
                            transcription_progress(100), choice,
                            NotifyPropagates(run[r].cb, choice), "gen_start")]
    /\ UNCHANGED restOfRun

RunSoapGeneration_Start(r, choice) ==
    /\ run[r].path = "sync" /\ run[r].pc = "gen_start"
    /\ IF run[r].transcription = None
       THEN run' = [run EXCEPT ![r] =
                      Caught(run[r], Unclassified("ValueError",
                             <<"Cannot generate SOAP without transcription">>))]
       ELSE LET res == Checkpoint(r, "generating", <<"Starting SOAP generation...">>,
                                  generation_progress(0), choice,
                                  NotifyPropagates(run[r].cb, choice), "gen_30")
            IN run' = [run EXCEPT ![r] =
                         IF res.pc = "except" THEN res
                         ELSE WithStatus(res, "generating")]
    /\ UNCHANGED restOfRun

RunSoapGeneration_Analyze(r, choice) ==
    /\ run[r].path = "sync" /\ run[r].pc = "gen_30"
    /\ run' = [run EXCEPT ![r] =
                 Checkpoint(r, "generating", <<"Analyzing transcription...">>,
                            generation_progress(30), choice,
                            NotifyPropagates(run[r].cb, choice), "gen_60")]
    /\ UNCHANGED restOfRun

RunSoapGeneration_BeforeLLM(r, choice) ==
    /\ run[r].path = "sync" /\ run[r].pc = "gen_60"
    /\ run' = [run EXCEPT ![r] =
                 Checkpoint(r, "generating", <<"Generating SOAP note with LLM...">>,
                            generation_progress(60), choice,
                            NotifyPropagates(run[r].cb, choice), "gen_call")]
    /\ UNCHANGED restOfRun

\* self.soap_generator.generate(text, language=detected_language)
RunSoapGeneration_Call(r) ==
    /\ run[r].path = "sync" /\ run[r].pc = "gen_call"
    /\ \/ run' = [run EXCEPT ![r] =
                    [Invoked(run[r], "generate", None)
                     EXCEPT !.soap_note = Some(SOAPNoteValue), !.pc = "gen_done"]]
       \/ \E e \in GenerateErrors :
            run' = [run EXCEPT ![r] = Caught(Invoked(run[r], "generate", Some(e)), e)]
    /\ UNCHANGED restOfRun

RunSoapGeneration_Done(r, choice) ==
    /\ run[r].path = "sync" /\ run[r].pc = "gen_done"
    /\ run' = [run EXCEPT ![r] =
                 Checkpoint(r, "generating", <<"SOAP note generated">>,
                            generation_progress(100), choice,
                            NotifyPropagates(run[r].cb, choice), "complete")]
    /\ UNCHANGED restOfRun

\* process, lines 217-234: mark as completed, notify, fall out of the try block.
Process_Complete(r, choice) ==
    /\ run[r].path = "sync" /\ run[r].pc = "complete"
    /\ LET res == NotifiedRes(WithStatus(run[r], "completed"),
                              "completed", <<"Processing complete in ", "t", "s">>,
                              100, choice)
       IN run' = [run EXCEPT ![r] =
                    IF NotifyPropagates(run[r].cb, choice)
                    THEN Caught(res, CallbackError)
                    ELSE [res EXCEPT !.pc = "returned"]]
    /\ UNCHANGED restOfRun

\* error_message the except clauses record: e.message of a classified error,
\* "Unexpected error: " + str(e) of any other exception.
ErrorMessage(e) ==
    IF e.classified THEN e.message ELSE <<"Unexpected error: ">> \o e.message

NotifyMessage(e) ==
    IF e.classified THEN <<"Error: ">> \o e.message
    ELSE <<"Unexpected error: ">> \o e.message

\* process, lines 236-266: the two except clauses, then return result.
\* An exception raised inside a clause leaves process.
Process_Except(r, choice) ==
    /\ run[r].path = "sync" /\ run[r].pc = "except"
    /\ LET e == run[r].exc[1]
           res == NotifiedRes([WithStatus(run[r], "failed")
                               EXCEPT !.error_message = Some(ErrorMessage(e))],
                              "failed", NotifyMessage(e), 0, choice)
       IN run' = [run EXCEPT ![r] =
                    IF NotifyPropagates(run[r].cb, choice)
                    THEN [res EXCEPT !.pc = "raised"]
                    ELSE [res EXCEPT !.pc = "returned"]]
    /\ UNCHANGED restOfRun

\* ---- the non-blocking path: aprocess, _arun_transcription, _arun_soap_generation
ARunTranscription_Start(r, choice) ==
    /\ run[r].path = "async" /\ run[r].pc = "tr_start"
    /\ LET res == Checkpoint(r, "transcribing", <<"Starting transcription...">>,
                             transcription_progress(0), choice,
                             ANotifyPropagates(run[r].cb, choice), "tr_mid")
       IN run' = [run EXCEPT ![r] =
                    IF res.pc = "except" THEN res
                    ELSE WithStatus(res, StatusAtTranscriptionStart)]
    /\ UNCHANGED restOfRun

ARunTranscription_Mid(r, choice) ==
    /\ run[r].path = "async" /\ run[r].pc = "tr_mid"
    /\ run' = [run EXCEPT ![r] =
                 Checkpoint(r, "transcribing", <<"Processing audio with Whisper...">>,
                            transcription_progress(50), choice,
                            ANotifyPropagates(run[r].cb, choice), "tr_call")]
    /\ UNCHANGED restOfRun

\* await self.transcriber.atranscribe(result.audio_file_path)
ARunTranscription_Call(r) ==
    /\ run[r].path = "async" /\ run[r].pc = "tr_call"
    /\ \/ run' = [run EXCEPT ![r] =
                    [Invoked(run[r], "transcribe", None)
                     EXCEPT !.transcription = Some(TranscriptionValue), !.pc = "tr_done"]]
       \/ \E e \in TranscribeErrors(run[r].audio_file_path) :
            run' = [run EXCEPT ![r] = Caught(Invoked(run[r], "transcribe", Some(e)), e)]
    /\ UNCHANGED restOfRun

ARunTranscription_Done(r, choice) ==
    /\ run[r].path = "async" /\ run[r].pc = "tr_done"
    /\ run' = [run EXCEPT ![r] =
                 Checkpoint(r, "transcribing", <<"Transcription complete">>,
                            transcription_progress(100), choice,
                            ANotifyPropagates(run[r].cb, choice), "gen_start")]
    /\ UNCHANGED restOfRun

ARunSoapGeneration_Start(r, choice) ==
    /\ run[r].path = "async" /\ run[r].pc = "gen_start"
    /\ IF run[r].transcription = None
       THEN run' = [run EXCEPT ![r] =
                      Caught(run[r], Unclassified("ValueError",
                             <<"Cannot generate SOAP without transcription">>))]
       ELSE LET res == Checkpoint(r, "generating", <<"Starting SOAP generation...">>,
                                  generation_progress(0), choice,
                                  ANotifyPropagates(run[r].cb, choice), "gen_30")
            IN run' = [run EXCEPT ![r] =
                         IF res.pc = "except" THEN res
                         ELSE WithStatus(res, "generating")]
    /\ UNCHANGED restOfRun

\* _arun_soap_generation without its 30% checkpoint.
ARunSoapGeneration_Analyze_Skipped(r, choice) ==
    /\ run[r].path = "async" /\ run[r].pc = "gen_30"
    /\ run' = [run EXCEPT ![r].pc = "gen_60"]
    /\ UNCHANGED restOfRun

ARunSoapGeneration_Analyze(r, choice) ==
    /\ run[r].path = "async" /\ run[r].pc = "gen_30"
    /\ run' = [run EXCEPT ![r] =
                 Checkpoint(r, "generating", <<"Analyzing transcription...">>,
                            generation_progress(30), choice,
                            ANotifyPropagates(run[r].cb, choice), "gen_60")]
    /\ UNCHANGED restOfRun

ARunSoapGeneration_BeforeLLM(r, choice) ==
    /\ run[r].path = "async" /\ run[r].pc = "gen_60"
    /\ run' = [run EXCEPT ![r] =
                 Checkpoint(r, "generating", <<"Generating SOAP note with LLM...">>,
                            generation_progress(60), choice,
                            ANotifyPropagates(run[r].cb, choice), "gen_call")]
    /\ UNCHANGED restOfRun

\* await self.soap_generator.agenerate(text, language=detected_language)
ARunSoapGeneration_Call(r) ==
    /\ run[r].path = "async" /\ run[r].pc = "gen_call"
    /\ \/ run' = [run EXCEPT ![r] =
                    [Invoked(run[r], "generate", None)
                     EXCEPT !.soap_note = Some(SOAPNoteValue), !.pc = "gen_done"]]
       \/ \E e \in GenerateErrors :
            run' = [run EXCEPT ![r] = Caught(Invoked(run[r], "generate", Some(e)), e)]
    /\ UNCHANGED restOfRun

ARunSoapGeneration_Done(r, choice) ==
    /\ run[r].path = "async" /\ run[r].pc = "gen_done"
    /\ run' = [run EXCEPT ![r] =
                 Checkpoint(r, "generating", <<"SOAP note generated">>,
                            generation_progress(100), choice,
                            ANotifyPropagates(run[r].cb, choice), "complete")]
    /\ UNCHANGED restOfRun

\* aprocess, lines 500-517: mark as completed, notify, fall out of the try block.
AProcess_Complete(r, choice) ==
    /\ run[r].path = "async" /\ run[r].pc = "complete"
    /\ LET res == NotifiedRes(WithStatus(run[r], "completed"),
                              "completed", <<"Processing complete in ", "t", "s">>,
                              100, choice)
       IN run' = [run EXCEPT ![r] =
                    IF ANotifyPropagates(run[r].cb, choice)
                    THEN Caught(res, CallbackError)
                    ELSE [res EXCEPT !.pc = "returned"]]
    /\ UNCHANGED restOfRun

\* aprocess, lines 519-547: the two except clauses, then return result.
\* An exception raised inside a clause leaves aprocess.
AProcess_Except(r, choice) ==
    /\ run[r].path = "async" /\ run[r].pc = "except"
    /\ LET e == run[r].exc[1]
           res == NotifiedRes([WithStatus(run[r], "failed")
                               EXCEPT !.error_message = Some(ErrorMessage(e))],
                              "failed", NotifyMessage(e), 0, choice)
       IN run' = [run EXCEPT ![r] =
                    IF ANotifyPropagates(run[r].cb, choice)
                    THEN [res EXCEPT !.pc = "raised"]
                    ELSE [res EXCEPT !.pc = "returned"]]
    /\ UNCHANGED restOfRun

\* ------------------------------------------------------------- endpoints
IdleTask == [kind |-> "none", pc |-> "none", result |-> None, exc |-> None]

Faulted(outcome) == outcome \in {"setex_failed", "publish_failed"}

CreateFaultChoices == FaultChoices \ {"publish"}

UploadMeta == Some([filename |-> "visit.wav"])
TextMeta == Some([language |-> "en"])

\* POST /process: create_job, save_upload_file, process_audio_task.delay.
\* save_upload_file raises for a missing name, a refused format, an oversized
\* or unwritable file; the handler then ends without queueing a task.
submit_process_job(j, uploadOk, fault) ==
    /\ Cardinality(issued) < MaxSubmits
    /\ issued # JobIds
    /\ j = FreshId
    /\ fault \in CreateFaultChoices
    /\ issued' = issued \cup {j}
    /\ create_job("api", j, "process", UploadMeta, fault)
    /\ faults' = IF fault = "none" THEN faults ELSE faults + 1
    /\ IF fault # "none" THEN UNCHANGED <<task, file>>
       ELSE IF uploadOk
            THEN /\ task' = [task EXCEPT ![j] = [IdleTask EXCEPT !.kind = "process", !.pc = "queued"]]
                 /\ file' = [file EXCEPT ![j] = TRUE]
            ELSE /\ task' = [task EXCEPT ![j] = [IdleTask EXCEPT !.kind = "process", !.pc = "rejected"]]
                 /\ UNCHANGED file
    /\ UNCHANGED <<useRedis, clock, ops, ret, run>>

\* POST /transcribe
submit_transcribe_job(j, uploadOk, fault) ==
    /\ Cardinality(issued) < MaxSubmits
    /\ issued # JobIds
    /\ j = FreshId
    /\ fault \in CreateFaultChoices
    /\ issued' = issued \cup {j}
    /\ create_job("api", j, "transcribe", UploadMeta, fault)
    /\ faults' = IF fault = "none" THEN faults ELSE faults + 1
    /\ IF fault # "none" THEN UNCHANGED <<task, file>>
       ELSE IF uploadOk
            THEN /\ task' = [task EXCEPT ![j] = [IdleTask EXCEPT !.kind = "transcribe", !.pc = "queued"]]
                 /\ file' = [file EXCEPT ![j] = TRUE]
            ELSE /\ task' = [task EXCEPT ![j] = [IdleTask EXCEPT !.kind = "transcribe", !.pc = "rejected"]]
                 /\ UNCHANGED file
    /\ UNCHANGED <<useRedis, clock, ops, ret, run>>

\* POST /generate-soap: no upload
submit_soap_generation_job(j, fault) ==
    /\ Cardinality(issued) < MaxSubmits
    /\ issued # JobIds
    /\ j = FreshId
    /\ fault \in CreateFaultChoices
    /\ issued' = issued \cup {j}
    /\ create_job("api", j, "generate_soap", TextMeta, fault)
    /\ faults' = IF fault = "none" THEN faults ELSE faults + 1
    /\ IF fault # "none" THEN UNCHANGED task
       ELSE task' = [task EXCEPT ![j] = [IdleTask EXCEPT !.kind = "generate_soap", !.pc = "queued"]]
    /\ UNCHANGED <<useRedis, clock, ops, ret, run, file>>

\* ------------------------------------------------------------- tasks
\* The worker-side code builds its own JobManager() instances.
ErrorDict(e) == [error |-> e.cls, message |-> e.message]

\* FileHandler.cleanup_file
cleanup_file(j) == file' = [file EXCEPT ![j] = FALSE]

\* process_audio_task, lines 81-94: create the pipeline and run aprocess with
\* progress_callback(job_id).
process_audio_task_Start(j) ==
    /\ task[j].kind = "process" /\ task[j].pc = "queued"
    /\ task' = [task EXCEPT ![j].pc = "pipeline"]
    /\ run' = [run EXCEPT ![j] = NewResult("async", "task", TempPath(j))]
    /\ UNCHANGED <<useRedis, redis, mem, chan, clock, faults, ops, issued, ret, file>>

\* process_audio_task, lines 96-105: dump the result, set_job_completed,
\* cleanup, return; the status of the result aprocess returned is not looked
\* at. Anything raised goes to the except clause.
process_audio_task_Complete(j, fault) ==
    /\ task[j].kind = "process" /\ task[j].pc = "pipeline"
    /\ run[j].pc \in {"returned", "raised"}
    /\ fault \in FaultChoices
    /\ UNCHANGED <<useRedis, clock, ops, issued, ret, run>>
    /\ IF run[j].pc = "raised"
       THEN /\ task' = [task EXCEPT ![j].pc = "except", ![j].exc = run[j].exc]
            /\ UNCHANGED <<redis, mem, chan, faults, file>>
       ELSE LET outcome == UpdateOutcome("worker", j, fault) IN
            /\ set_job_completed("worker", j, ModelDump(run[j]), fault)
            /\ faults' = IF Faulted(outcome) THEN faults + 1 ELSE faults
            /\ IF outcome = "ok"
               THEN /\ cleanup_file(j)
                    /\ task' = [task EXCEPT ![j].pc = "returned",
                                            ![j].result = Some(ModelDump(run[j]))]
               ELSE /\ UNCHANGED file
                    /\ task' = [task EXCEPT ![j].pc = "except",
                                            ![j].exc = Some(StoreError(j, outcome))]

\* process_audio_task, lines 107-117: set_job_failed, cleanup, re-raise.
\* When set_job_failed raises, its exception leaves the task at once.
process_audio_task_Except(j, fault) ==
    /\ task[j].kind = "process" /\ task[j].pc = "except"
    /\ fault \in FaultChoices
    /\ LET outcome == UpdateOutcome("worker", j, fault) IN
       /\ set_job_failed("worker", j, ErrorDict(task[j].exc[1]), fault)
       /\ faults' = IF Faulted(outcome) THEN faults + 1 ELSE faults
       /\ task' = [task EXCEPT ![j].pc = "raised"]
       /\ IF outcome = "ok" THEN cleanup_file(j) ELSE UNCHANGED file
    /\ UNCHANGED <<useRedis, clock, ops, issued, ret, run>>

\* transcribe_audio_task: set_job_progress(10, "transcribing")
transcribe_audio_task_Start(j, fault) ==
    /\ task[j].kind = "transcribe" /\ task[j].pc = "queued"
    /\ fault \in FaultChoices
    /\ LET outcome == UpdateOutcome("worker", j, fault) IN
       /\ set_job_progress("worker", j, 10, "transcribing", fault)
       /\ faults' = IF Faulted(outcome) THEN faults + 1 ELSE faults
       /\ task' = IF outcome = "ok" THEN [task EXCEPT ![j].pc = "work"]
                  ELSE [task EXCEPT ![j].pc = "except",
                                    ![j].exc = Some(StoreError(j, outcome))]
    /\ UNCHANGED <<useRedis, clock, ops, issued, ret, run, file>>

\* transcribe_audio_task: asyncio.run(pipeline.atranscribe_only(audio_path))
transcribe_audio_task_Work(j) ==
    /\ task[j].kind = "transcribe" /\ task[j].pc = "work"
    /\ \/ task' = [task EXCEPT ![j].pc = "finalizing",
                               ![j].result = Some(TranscriptionValue)]
       \/ \E e \in TranscribeErrors(TempPath(j)) :
            task' = [task EXCEPT ![j].pc = "except", ![j].exc = Some(e)]
    /\ UNCHANGED <<useRedis, redis, mem, chan, clock, faults, ops, issued, ret, run, file>>

\* transcribe_audio_task: set_job_progress(90, "finalizing")
transcribe_audio_task_Finalizing(j, fault) ==
    /\ task[j].kind = "transcribe" /\ task[j].pc = "finalizing"
    /\ fault \in FaultChoices
    /\ LET outcome == UpdateOutcome("worker", j, fault) IN
       /\ set_job_progress("worker", j, 90, "finalizing", fault)
       /\ faults' = IF Faulted(outcome) THEN faults + 1 ELSE faults
       /\ task' = IF outcome = "ok" THEN [task EXCEPT ![j].pc = "complete"]
                  ELSE [task EXCEPT ![j].pc = "except",
                                    ![j].exc = Some(StoreError(j, outcome))]
    /\ UNCHANGED <<useRedis, clock, ops, issued, ret, run, file>>

\* transcribe_audio_task: set_job_completed, cleanup, return
transcribe_audio_task_Complete(j, fault) ==
    /\ task[j].kind = "transcribe" /\ task[j].pc = "complete"
    /\ fault \in FaultChoices
    /\ LET outcome == UpdateOutcome("worker", j, fault) IN
       /\ set_job_completed("worker", j, task[j].result[1], fault)
       /\ faults' = IF Faulted(outcome) THEN faults + 1 ELSE faults
       /\ IF outcome = "ok"
          THEN /\ cleanup_file(j)
               /\ task' = [task EXCEPT ![j].pc = "returned"]
          ELSE /\ UNCHANGED file
               /\ task' = [task EXCEPT ![j].pc = "except",
                                       ![j].exc = Some(StoreError(j, outcome))]
    /\ UNCHANGED <<useRedis, clock, ops, issued, ret, run>>

\* transcribe_audio_task: except: set_job_failed, cleanup, raise
transcribe_audio_task_Except(j, fault) ==
    /\ task[j].kind = "transcribe" /\ task[j].pc = "except"
    /\ fault \in FaultChoices
    /\ LET outcome == UpdateOutcome("worker", j, fault) IN
       /\ set_job_failed("worker", j, ErrorDict(task[j].exc[1]), fault)
       /\ faults' = IF Faulted(outcome) THEN faults + 1 ELSE faults
       /\ task' = [task EXCEPT ![j].pc = "raised"]
       /\ IF outcome = "ok" THEN cleanup_file(j) ELSE UNCHANGED file
    /\ UNCHANGED <<useRedis, clock, ops, issued, ret, run>>

\* generate_soap_task: set_job_progress(10, "generating")
generate_soap_task_Start(j, fault) ==
    /\ task[j].kind = "generate_soap" /\ task[j].pc = "queued"
    /\ fault \in FaultChoices
    /\ LET outcome == UpdateOutcome("worker", j, fault) IN
       /\ set_job_progress("worker", j, 10, "generating", fault)
       /\ faults' = IF Faulted(outcome) THEN faults + 1 ELSE faults
       /\ task' = IF outcome = "ok" THEN [task EXCEPT ![j].pc = "work"]
                  ELSE [task EXCEPT ![j].pc = "except",
                                    ![j].exc = Some(StoreError(j, outcome))]
    /\ UNCHANGED <<useRedis, clock, ops, issued, ret, run, file>>

\* generate_soap_task: asyncio.run(pipeline.agenerate_soap_only(transcription, language))
generate_soap_task_Work(j) ==
    /\ task[j].kind = "generate_soap" /\ task[j].pc = "work"
    /\ \/ task' = [task EXCEPT ![j].pc = "finalizing",
                               ![j].result = Some(SOAPNoteValue)]
       \/ \E e \in GenerateErrors :
            task' = [task EXCEPT ![j].pc = "except", ![j].exc = Some(e)]
    /\ UNCHANGED <<useRedis, redis, mem, chan, clock, faults, ops, issued, ret, run, file>>

\* generate_soap_task: set_job_progress(90, "finalizing")
generate_soap_task_Finalizing(j, fault) ==
    /\ task[j].kind = "generate_soap" /\ task[j].pc = "finalizing"
    /\ fault \in FaultChoices
    /\ LET outcome == UpdateOutcome("worker", j, fault) IN
       /\ set_job_progress("worker", j, 90, "finalizing", fault)
       /\ faults' = IF Faulted(outcome) THEN faults + 1 ELSE faults
       /\ task' = IF outcome = "ok" THEN [task EXCEPT ![j].pc = "complete"]
                  ELSE [task EXCEPT ![j].pc = "except",
                                    ![j].exc = Some(StoreError(j, outcome))]
    /\ UNCHANGED <<useRedis, clock, ops, issued, ret, run, file>>

\* generate_soap_task: set_job_completed, return
generate_soap_task_Complete(j, fault) ==
    /\ task[j].kind = "generate_soap" /\ task[j].pc = "complete"
    /\ fault \in FaultChoices
    /\ LET outcome == UpdateOutcome("worker", j, fault) IN
       /\ set_job_completed("worker", j, task[j].result[1], fault)
       /\ faults' = IF Faulted(outcome) THEN faults + 1 ELSE faults
       /\ task' = IF outcome = "ok" THEN [task EXCEPT ![j].pc = "returned"]
                  ELSE [task EXCEPT ![j].pc = "except",
                                    ![j].exc = Some(StoreError(j, outcome))]
    /\ UNCHANGED <<useRedis, clock, ops, issued, ret, run, file>>

\* generate_soap_task: except: set_job_failed, raise
generate_soap_task_Except(j, fault) ==
    /\ task[j].kind = "generate_soap" /\ task[j].pc = "except"
    /\ fault \in FaultChoices
    /\ LET outcome == UpdateOutcome("worker", j, fault) IN
       /\ set_job_failed("worker", j, ErrorDict(task[j].exc[1]), fault)
       /\ faults' = IF Faulted(outcome) THEN faults + 1 ELSE faults
       /\ task' = [task EXCEPT ![j].pc = "raised"]
    /\ UNCHANGED <<useRedis, clock, ops, issued, ret, run, file>>

\* ------------------------------------------------------------- direct calls
\* StoreSpec: a client calls the JobManager API on an instance m.
ProgressArgs == {40}
StageArgs == {"transcribing"}
TypeArgs == {"process", "transcribe"}

ResultArgs == {[text |-> "transcript"]}
ErrorArgs == {[error |-> "ValueError", message |-> <<"bad input">>]}

Call_create_job(m, j, job_type, metadata, fault) ==
    /\ ops < MaxOps
    /\ issued # JobIds
    /\ j = FreshId
    /\ fault \in CreateFaultChoices
    /\ issued' = issued \cup {j}
    /\ ops' = ops + 1
    /\ create_job(m, j, job_type, metadata, fault)
    /\ faults' = IF fault = "none" THEN faults ELSE faults + 1
    /\ ret' = [op |-> "create_job", m |-> m, job_id |-> j, job_type |-> job_type,
               metadata |-> metadata,
               outcome |-> IF fault = "none" THEN "ok" ELSE "setex_failed"]
    /\ UNCHANGED <<useRedis, clock, task, file, run>>

Call_get_job(m, j) ==
    /\ ops < MaxOps
    /\ ops' = ops + 1
    /\ ret' = [op |-> "get_job", m |-> m, job_id |-> j, outcome |-> "ok",
               value |-> get_job(m, j)]
    /\ UNCHANGED <<useRedis, redis, mem, chan, clock, faults, issued, task, file, run>>

Call_set_job_progress(m, j, progress, stage, fault) ==
    /\ ops < MaxOps
    /\ fault \in FaultChoices
    /\ ops' = ops + 1
    /\ set_job_progress(m, j, progress, stage, fault)
    /\ faults' = IF Faulted(UpdateOutcome(m, j, fault)) THEN faults + 1 ELSE faults
    /\ ret' = [op |-> "set_job_progress", m |-> m, job_id |-> j,
               outcome |-> UpdateOutcome(m, j, fault)]
    /\ UNCHANGED <<useRedis, clock, issued, task, file, run>>

Call_set_job_completed(m, j, result, fault) ==
    /\ ops < MaxOps
    /\ fault \in FaultChoices
    /\ ops' = ops + 1
    /\ set_job_completed(m, j, result, fault)
    /\ faults' = IF Faulted(UpdateOutcome(m, j, fault)) THEN faults + 1 ELSE faults
    /\ ret' = [op |-> "set_job_completed", m |-> m, job_id |-> j,
               outcome |-> UpdateOutcome(m, j, fault)]
    /\ UNCHANGED <<useRedis, clock, issued, task, file, run>>

Call_set_job_failed(m, j, error, fault) ==
    /\ ops < MaxOps
    /\ fault \in FaultChoices
    /\ ops' = ops + 1
    /\ set_job_failed(m, j, error, fault)
    /\ faults' = IF Faulted(UpdateOutcome(m, j, fault)) THEN faults + 1 ELSE faults
    /\ ret' = [op |-> "set_job_failed", m |-> m, job_id |-> j, error |-> error,
               outcome |-> UpdateOutcome(m, j, fault)]
    /\ UNCHANGED <<useRedis, clock, issued, task, file, run>>

\* The key job:{id} reaches the end of its TTL (setex job_ttl) and Redis drops it.
Expire(j) ==
    /\ useRedis
    /\ redis[j] # None
    /\ redis' = [redis EXCEPT ![j] = None]
    /\ ret' = [op |-> "expire", job_id |-> j]
    /\ UNCHANGED <<useRedis, mem, chan, clock, faults, ops, issued, task, file, run>>

\* job_ttl seconds pass during which no store call is made. Every Redis key
\* was given a TTL of job_ttl at its last setex, so none outlives the window;
\* the _jobs dict of an instance has no expiry.
RetentionWindow ==
    /\ redis' = [j \in JobIds |-> None]
    /\ ret' = [op |-> "window"]
    /\ UNCHANGED <<useRedis, mem, chan, clock, faults, ops, issued, task, file, run>>

\* Time passes between two readings of datetime.utcnow().
Tick ==
    /\ clock < MaxClock
    /\ clock' = clock + 1
    /\ UNCHANGED <<useRedis, redis, mem, chan, faults, ops, issued, ret, task, file, run>>

\* PipeSpec: a caller (cli.py, quick_process) runs the pipeline directly.
Call_process(cb) ==
    /\ run["direct"].pc = "idle"
    /\ run' = [run EXCEPT !["direct"] = NewResult("sync", cb, DirectPath)]
    /\ UNCHANGED restOfRun

Call_aprocess(cb) ==
    /\ run["direct"].pc = "idle"
    /\ run' = [run EXCEPT !["direct"] = NewResult("async", cb, DirectPath)]
    /\ UNCHANGED restOfRun

\* The caller calls the pipeline a second time on the same input, once the
\* first call has ended.
Again_process ==
    /\ run["direct"].pc \in {"returned", "raised"}
    /\ run["ref"].pc = "idle"
    /\ run' = [run EXCEPT !["ref"] = NewResult("sync", run["direct"].cb, DirectPath)]
    /\ UNCHANGED restOfRun

Again_aprocess ==
    /\ run["direct"].pc \in {"returned", "raised"}
    /\ run["ref"].pc = "idle"
    /\ run' = [run EXCEPT !["ref"] = NewResult("async", run["direct"].cb, DirectPath)]
    /\ UNCHANGED restOfRun

\* The collaborator calls of a run, in order.
Invocations(r) == SelectSeq(run[r].trace, LAMBDA e : e.ev = "invoke")

\* Two outcomes of one collaborator are the same, or are unclassified
\* exceptions of one class that differ in their text only.
SimilarOutcome(a, b) ==
    \/ a = b
    \/ /\ a # None /\ b # None
       /\ ~a[1].classified /\ ~b[1].classified
       /\ a[1].cls = b[1].cls

\* The setting of the second call: its callback does not raise, and each
\* collaborator behaves as it did in the first call (up to the text of an
\* unclassified exception).
RefFollows ==
    /\ \A i \in DOMAIN run["ref"].calls : ~run["ref"].calls[i].raised
    /\ \A i \in DOMAIN Invocations("ref"), k \in DOMAIN Invocations("direct") :
            Invocations("ref")[i].collab = Invocations("direct")[k].collab
            => SimilarOutcome(Invocations("ref")[i].outcome,
                              Invocations("direct")[k].outcome)

\* ------------------------------------------------------------- websocket
\* websocket_job_stream (api/routes/websocket.py): one subscriber's handler.
\*   pc          where the handler is
\*   snap        job_data, what the handler's own JobManager().get_job returned
\*   sent        the messages send_json has delivered to the client, in order
\*   open        the server has not closed the WebSocket
\*   client      the client is still connected
\*   sub         the Redis pub/sub subscription: none, active, released
\*   subAt       messages published on the job's channel before the subscription
\*   read        messages pubsub.listen() has handed to the loop
\*   exit        how the handler left its try block
\*   propagated  an exception left the handler
\* History kept for the properties:
\*   atConnect   the record the endpoints' JobManager held when snap was read
\*   chanAtSnap  messages published on the job's channel when snap was read
\*   swallowed   a cleanup step raised and the exception was swallowed
IdleStream ==
    [pc |-> "idle", job_id |-> "none", snap |-> None, sent |-> <<>>, open |-> FALSE,
     client |-> FALSE, sub |-> "none", subAt |-> 0, read |-> 0, exit |-> "none",
     propagated |-> FALSE, atConnect |-> None, chanAtSnap |-> 0, swallowed |-> FALSE]

storeAndRest ==
    <<useRedis, redis, mem, chan, clock, faults, ops, issued, ret, task, file, run>>

\* get_job on the JobManager() the handler has just constructed: with Redis it
\* reads the shared key, without Redis its _jobs dict is empty.
FreshManagerGet(job_id) == IF useRedis THEN get_job("api", job_id) ELSE None

NotFoundMessage(job_id) ==
    [error |-> "Job not found", job_id |-> job_id,
     message |-> <<"No job found with ID: ", job_id>>]

InternalErrorMessage ==
    [error |-> "Internal server error",
     message |-> <<"An unexpected error occurred: ", "ConnectionError">>]

\* await websocket.send_json(msg) succeeds while the socket is open and the
\* client is there; otherwise it raises.
CanSend(w) == w.open /\ w.client

Sent(w, msg) == [w EXCEPT !.sent = Append(@, msg)]

\* lines 47-56: accept the connection, build a JobManager, read the job.
ws_Connect(j) ==
    /\ ws.pc = "idle"
    /\ ws' = [ws EXCEPT !.pc = "got", !.job_id = j, !.open = TRUE, !.client = TRUE,
                        !.snap = FreshManagerGet(j),
                        !.atConnect = get_job("api", j),
                        !.chanAtSnap = Len(chan[j])]
    /\ UNCHANGED <<storeAndRest, prog, soap, whisper>>

\* lines 57-72: not found: send the error and close; otherwise send the
\* snapshot, and close if it is already completed or failed. A send that
\* raises goes to the except clauses, whose own send fails too.
ws_SendSnapshot ==
    /\ ws.pc = "got"
    /\ ws' = IF ~CanSend(ws)
             THEN [ws EXCEPT !.pc = "finally", !.exit = "disconnect"]
             ELSE IF ws.snap = None
             THEN [Sent(ws, NotFoundMessage(ws.job_id))
                   EXCEPT !.pc = "finally", !.open = FALSE, !.exit = "not_found"]
             ELSE IF ws.snap[1].status \in {"completed", "failed"}
             THEN [Sent(ws, ws.snap[1])
                   EXCEPT !.pc = "finally", !.open = FALSE, !.exit = "terminal_snapshot"]
             ELSE [Sent(ws, ws.snap[1]) EXCEPT !.pc = "subscribing"]
    /\ UNCHANGED <<storeAndRest, prog, soap, whisper>>

\* lines 74-84: create the Redis client and the pub/sub object, subscribe to
\* job_updates:{job_id}. The subscription sees what is published from now on.
\* Without a reachable Redis, or when the command fails, the exception goes to
\* the outer handler, which tries to tell the client (lines 116-124).
ws_Subscribe(ok) ==
    /\ ws.pc = "subscribing"
    /\ ws' = IF useRedis /\ ok
             THEN [ws EXCEPT !.pc = "listening", !.sub = "active",
                             !.subAt = Len(chan[ws.job_id])]
             ELSE [(IF CanSend(ws) THEN Sent(ws, InternalErrorMessage) ELSE ws)
                   EXCEPT !.pc = "finally", !.sub = "lost", !.exit = "store_error"]
    /\ UNCHANGED <<storeAndRest, prog, soap, whisper>>

IsTerminal(data) == "status" \in DOMAIN data /\ data.status \in {"completed", "failed"}

\* The message pubsub.listen() yields next.
NextMessage(w) == chan[w.job_id][w.subAt + w.read + 1]

\* The loop body without the break: the channel is closed but the loop goes on.
ws_Relay_NoBreak ==
    /\ ws.pc = "listening"
    /\ ws.subAt + ws.read < Len(chan[ws.job_id])
    /\ LET data == JsonLoads(NextMessage(ws)) IN
       ws' = IF ~ws.client
             THEN [ws EXCEPT !.pc = "finally", !.exit = "relay_error"]
             ELSE [Sent(ws, data) EXCEPT !.read = @ + 1]
    /\ UNCHANGED <<storeAndRest, prog, soap, whisper>>

\* lines 87-110, one iteration: parse the message, send it, and on a completed
\* or failed status close and leave the loop. A send that raises is caught by
\* the inner handler, whose own send raises again and leaves the try block.
ws_Relay ==
    /\ ws.pc = "listening"
    /\ ws.subAt + ws.read < Len(chan[ws.job_id])
    /\ LET data == JsonLoads(NextMessage(ws)) IN
       ws' = IF ~CanSend(ws)
             THEN [ws EXCEPT !.pc = "finally", !.exit = "relay_error"]
             ELSE IF IsTerminal(data)
             THEN [Sent(ws, data) EXCEPT !.read = @ + 1, !.pc = "finally",
                                         !.open = FALSE, !.exit = "terminal"]
             ELSE [Sent(ws, data) EXCEPT !.read = @ + 1]
    /\ UNCHANGED <<storeAndRest, prog, soap, whisper>>

\* line 87 raising: the connection to Redis is lost while listening; the outer
\* handler tries to tell the client (lines 116-124).
ws_ListenFails ==
    /\ ws.pc = "listening"
    /\ ws' = [(IF CanSend(ws) THEN Sent(ws, InternalErrorMessage) ELSE ws)
              EXCEPT !.pc = "finally", !.sub = "lost", !.exit = "store_error"]
    /\ UNCHANGED <<storeAndRest, prog, soap, whisper>>

\* The client goes away; the handler notices at its next send.
ClientDisconnect ==
    /\ ws.pc \in {"got", "subscribing", "listening"}
    /\ ws.client
    /\ ws' = [ws EXCEPT !.client = FALSE]
    /\ UNCHANGED <<storeAndRest, prog, soap, whisper>>

\* A finally block that closes the WebSocket only.
ws_Finally_CloseOnly(connLost) ==
    /\ ws.pc = "finally"
    /\ ws' = [ws EXCEPT !.pc = "returned", !.open = FALSE,
                        !.swallowed = ~ws.open \/ ~ws.client]
    /\ UNCHANGED <<storeAndRest, prog, soap, whisper>>

\* lines 126-145: unsubscribe and close the pub/sub object, close the Redis
\* client, close the WebSocket, each inside try / bare except. unsubscribe
\* raises when the connection to Redis is gone (connLost), and a connection
\* that is gone carries no subscription; closing a WebSocket that is already
\* closed, or whose client has left, raises.
ws_Finally(connLost) ==
    /\ ws.pc = "finally"
    /\ ws' = [ws EXCEPT !.pc = "returned", !.open = FALSE,
                        !.sub = IF @ = "active"
                                THEN (IF connLost THEN "lost" ELSE "released")
                                ELSE @,
                        !.swallowed = \/ ~ws.open
                                      \/ ~ws.client
                                      \/ ws.sub = "lost"
                                      \/ (ws.sub = "active" /\ connLost)]
    /\ UNCHANGED <<storeAndRest, prog, soap, whisper>>


\* ------------------------------------------------------------- progress helper
\* A caller makes two calls of the helper functions, with any arguments of
\* the documented range; prog keeps both.
Call_transcription_progress(stage_percent) ==
    /\ prog.prev = NoCall
    /\ prog' = [last |-> HelperCall("transcription_progress", stage_percent,
                                    transcription_progress(stage_percent)),
                prev |-> prog.last]
    /\ UNCHANGED <<storeAndRest, ws, soap, whisper>>

Call_generation_progress(stage_percent) ==
    /\ prog.prev = NoCall
    /\ prog' = [last |-> HelperCall("generation_progress", stage_percent,
                                    generation_progress(stage_percent)),
                prev |-> prog.last]
    /\ UNCHANGED <<storeAndRest, ws, soap, whisper>>

\* ------------------------------------------------------------- SOAP generator
\* core/soap_generator.py. A text is a sequence of tokens; its characters are
\* those of its tokens in order. Section headers, separator lines and line
\* breaks are tokens of their own, every other token is a run of words.
SectionNames == <<"subjective", "objective", "assessment", "plan">>

Sentinel == <<"Not documented in this encounter">>

HeaderOf(section) ==
    CASE section = "subjective" -> "SUBJECTIVE:"
      [] section = "objective" -> "OBJECTIVE:"
      [] section = "assessment" -> "ASSESSMENT:"
      [] section = "plan" -> "PLAN:"

\* len(text)
RECURSIVE CharLen(_)
CharLen(text) == IF text = <<>> THEN 0 ELSE Len(Head(text)) + CharLen(Tail(text))

\* str.strip()
RECURSIVE LStrip(_)
LStrip(text) == IF text # <<>> /\ Head(text) = "\n" THEN LStrip(Tail(text)) ELSE text

RECURSIVE Strip(_)
Strip(text) ==
    IF text # <<>> /\ text[Len(text)] = "\n"
    THEN Strip(SubSeq(text, 1, Len(text) - 1))
    ELSE LStrip(text)

\* The lookahead that ends a section's content at position p: the next
\* section's header, a separator followed by blank space and that header, or
\* the end of the text; for the plan a separator or a closing marker.
EndsGroup(text, p, section) ==
    \/ p > Len(text)
    \/ /\ section = "plan"
       /\ text[p] \in {"---", "End of SOAP Note", "VALIDATION WARNINGS"}
    \/ /\ section # "plan"
       /\ LET next == HeaderOf(CASE section = "subjective" -> "objective"
                                 [] section = "objective" -> "assessment"
                                 [] section = "assessment" -> "plan")
          IN  \/ text[p] = next
              \/ /\ text[p] = "---"
                 /\ \E q \in (p + 2)..Len(text) :
                       /\ text[q] = next
                       /\ \A k \in (p + 1)..(q - 1) : text[k] = "\n"

\* re.finditer(pattern, response): group 1 of every match from position i on.
\* A match is the header, at least one blank, then as little as possible up to
\* the lookahead; the search goes on where the match ended.
RECURSIVE MatchesFrom(_, _, _)
MatchesFrom(text, i, section) ==
    IF i > Len(text) THEN <<>>
    ELSE IF text[i] = HeaderOf(section) /\ i < Len(text) /\ text[i + 1] = "\n"
    THEN LET k == CHOOSE p \in (i + 2)..(Len(text) + 1) :
                     /\ \A q \in (i + 1)..(p - 1) : text[q] = "\n"
                     /\ p <= Len(text) => text[p] # "\n"
             e == CHOOSE p \in k..(Len(text) + 1) :
                     /\ EndsGroup(text, p, section)
                     /\ \A q \in k..(p - 1) : ~EndsGroup(text, q, section)
         IN  <<SubSeq(text, k, e - 1)>> \o MatchesFrom(text, e, section)
    ELSE MatchesFrom(text, i + 1, section)

\* A cleaner that keeps the first line only.
_clean_section_content_FirstLine(content) ==
    IF Strip(content) = <<>> THEN <<>> ELSE <<Head(Strip(content))>>

\* _clean_section_content, one definition per re.sub of the source:
\*   DropLeadingDashes  r'^[-]+\s*' at the very start;
\*   DropLeadingNote    r'^Note\*\*\s*' at the very start;
\*   SubAtLineStart     r'^tok\s*' with MULTILINE: tok at the start of a line
\*                      goes, with the blank space after it;
\*   CollapseNewlines   r'\n{3,}' -> '\n\n'; kept counts the breaks just kept;
\*   SubBareLine        r'^(toks)\s*$' with MULTILINE (trailing = TRUE) and
\*                      r'^toks$' (trailing = FALSE): a token of toks alone on
\*                      its line goes; \s* takes the blank space after it up to
\*                      the last end of line.
_clean_section_content(content) ==
    LET RECURSIVE DropLeadingDashes(_)
        DropLeadingDashes(text) ==
            IF text # <<>> /\ Head(text) = "---" THEN DropLeadingDashes(Tail(text))
            ELSE LStrip(text)
        RECURSIVE SubAtLineStart(_, _, _)
        SubAtLineStart(text, tok, atStart) ==
            IF text = <<>> THEN <<>>
            ELSE IF atStart /\ Head(text) = tok
            THEN SubAtLineStart(LStrip(Tail(text)), tok, LStrip(Tail(text)) # Tail(text))
            ELSE <<Head(text)>> \o SubAtLineStart(Tail(text), tok, Head(text) = "\n")
        RECURSIVE CollapseNewlines(_, _)
        CollapseNewlines(text, kept) ==
            IF text = <<>> THEN <<>>
            ELSE IF Head(text) = "\n"
            THEN IF kept >= 2 THEN CollapseNewlines(Tail(text), kept)
                 ELSE <<Head(text)>> \o CollapseNewlines(Tail(text), kept + 1)
            ELSE <<Head(text)>> \o CollapseNewlines(Tail(text), 0)
        RECURSIVE SubBareLine(_, _, _, _)
        SubBareLine(text, toks, trailing, atStart) ==
            IF text = <<>> THEN <<>>
            ELSE IF /\ atStart
                    /\ Head(text) \in toks
                    /\ (Tail(text) = <<>> \/ text[2] = "\n")
            THEN LET rest == Tail(text)
                     after == LStrip(rest)
                 IN  IF ~trailing THEN SubBareLine(rest, toks, trailing, FALSE)
                     ELSE IF after = <<>> THEN <<>>
                     ELSE SubBareLine(<<"\n">> \o after, toks, trailing,
                                      Len(rest) - Len(after) > 1)
            ELSE <<Head(text)>> \o SubBareLine(Tail(text), toks, trailing, Head(text) = "\n")
        DropLeadingNote(text) ==
            IF text # <<>> /\ Head(text) = "Note**" THEN LStrip(Tail(text)) ELSE text
        Headers == {"SUBJECTIVE:", "OBJECTIVE:", "ASSESSMENT:", "PLAN:"}
    IN  Strip(
         CollapseNewlines(
          SubBareLine(
           SubBareLine(
            CollapseNewlines(
             SubAtLineStart(
              SubAtLineStart(
               DropLeadingNote(DropLeadingDashes(Strip(content))),
               "---", TRUE),
              "#", TRUE),
             0),
            Headers, TRUE, TRUE),
           {"---"}, FALSE, TRUE),
          0))

\* The candidates of a section, cleaned, in the order of their matches.
Candidates(response, section) ==
    LET Cleaned(matches) ==
            [i \in DOMAIN matches |-> _clean_section_content(Strip(matches[i]))]
    IN  Cleaned(MatchesFrom(response, 1, section))

\* A loop that takes the first candidate whatever its length.
SectionContent_AnyCandidate(response, section) ==
    LET First(cleaned) == IF cleaned # <<>> THEN cleaned[1] ELSE Sentinel
    IN  First(Candidates(response, section))

\* The first candidate with more than 5 characters that is not a bare
\* artifact, or the sentinel.
SectionContent(response, section) ==
    LET FirstGood(cleaned) ==
            LET good == {i \in DOMAIN cleaned :
                            /\ CharLen(cleaned[i]) > 5
                            /\ cleaned[i] \notin {<<"---">>, <<"Note**">>}}
            IN  IF good # {} THEN cleaned[CHOOSE i \in good : \A k \in good : i <= k]
                ELSE Sentinel
    IN  FirstGood(Candidates(response, section))

SOAPNote(subjective, objective, assessment, plan) ==
    [subjective |-> subjective, objective |-> objective, assessment |-> assessment,
     plan |-> plan, diagnosis_codes |-> None, procedure_codes |-> None, metrics |-> None]

_parse_soap_response(response) ==
    SOAPNote(SectionContent(response, "subjective"),
             SectionContent(response, "objective"),
             SectionContent(response, "assessment"),
             SectionContent(response, "plan"))

\* The characters of a section text: its tokens joined.
RECURSIVE Chars(_)
Chars(text) == IF text = <<>> THEN "" ELSE Head(text) \o Chars(Tail(text))

\* str.lower() and str.upper() on ASCII text.
LowerOf ==
    "A" :> "a" @@ "B" :> "b" @@ "C" :> "c" @@ "D" :> "d" @@ "E" :> "e" @@ "F" :> "f" @@
    "G" :> "g" @@ "H" :> "h" @@ "I" :> "i" @@ "J" :> "j" @@ "K" :> "k" @@ "L" :> "l" @@
    "M" :> "m" @@ "N" :> "n" @@ "O" :> "o" @@ "P" :> "p" @@ "Q" :> "q" @@ "R" :> "r" @@
    "S" :> "s" @@ "T" :> "t" @@ "U" :> "u" @@ "V" :> "v" @@ "W" :> "w" @@ "X" :> "x" @@
    "Y" :> "y" @@ "Z" :> "z"

RECURSIVE lower(_)
lower(s) ==
    IF s = "" THEN ""
    ELSE LET Mapped(c) == IF c \in DOMAIN LowerOf THEN LowerOf[c] ELSE c
         IN  Mapped(SubSeq(s, 1, 1)) \o lower(SubSeq(s, 2, Len(s)))

RECURSIVE upper(_)
upper(s) ==
    IF s = "" THEN ""
    ELSE LET Mapped(c) == IF \E u \in DOMAIN LowerOf : LowerOf[u] = c
                          THEN CHOOSE u \in DOMAIN LowerOf : LowerOf[u] = c
                          ELSE c
         IN  Mapped(SubSeq(s, 1, 1)) \o upper(SubSeq(s, 2, Len(s)))

\* sub in s
Occurs(sub, s) == \E i \in 1..(Len(s) - Len(sub) + 1) : SubSeq(s, i, i + Len(sub) - 1) = sub

\* s[i:].startswith(sub)
StartsAt(s, i, sub) ==
    i + Len(sub) - 1 <= Len(s) /\ SubSeq(s, i, i + Len(sub) - 1) = sub

\* \s* and \d* of a pattern, matched greedily from position i: the position
\* of the first character that is not of the class (Len(s) + 1 at the end).
RECURSIVE Skip(_, _, _)
Skip(s, i, class) ==
    IF i <= Len(s) /\ Occurs(SubSeq(s, i, i), class) THEN Skip(s, i + 1, class) ELSE i

Spaces == " \n\t\r"

Digits == "0123456789"

\* _validate_icd10_codes: re.findall of r'icd-10:\s*([A-Z]\d{2}(?:\.\d{1,2})?)'
\* with IGNORECASE on the assessment, then three checks per code.
_validate_icd10_codes(soap_note) ==
    LET assessment == Chars(soap_note.assessment)
        assessment_lower == lower(assessment)
        CodeStart(i) == Skip(assessment, i + 7, Spaces)
        IsCode(k) ==
            /\ k + 2 <= Len(assessment)
            /\ Occurs(upper(SubSeq(assessment, k, k)), "ABCDEFGHIJKLMNOPQRSTUVWXYZ")
            /\ Skip(assessment, k + 1, Digits) >= k + 3
        CodeEnd(k) ==
            IF /\ StartsAt(assessment, k + 3, ".")
               /\ Skip(assessment, k + 4, Digits) > k + 4
            THEN IF Skip(assessment, k + 4, Digits) > k + 5 THEN k + 6 ELSE k + 5
            ELSE k + 3
        Checks(code_upper) ==
            (IF StartsAt(code_upper, 1, "F32") /\ Occurs("anxiety", assessment_lower)
             THEN <<"ICD-10 HALLUCINATION: Code " \o code_upper
                        \o " is for Major Depressive Disorder, but diagnosis mentions 'anxiety'.">>
             ELSE <<>>)
            \o (IF /\ StartsAt(code_upper, 1, "X") \/ StartsAt(code_upper, 1, "Y")
                   /\ ~(\/ Occurs("external cause", assessment_lower)
                        \/ Occurs("secondary", assessment_lower))
                THEN <<"ICD-10 ERROR: Code " \o code_upper \o " is an External Cause code.">>
                ELSE <<>>)
            \o (IF /\ StartsAt(code_upper, 1, "F41")
                   /\ Occurs("depress", assessment_lower)
                   /\ ~Occurs("anxiety", assessment_lower)
                THEN <<"ICD-10 MISMATCH: Code " \o code_upper \o " is for anxiety disorders.">>
                ELSE <<>>)
        RECURSIVE FromPos(_)
        FromPos(i) ==
            IF i > Len(assessment) THEN <<>>
            ELSE IF StartsAt(assessment_lower, i, "icd-10:") /\ IsCode(CodeStart(i))
            THEN Checks(upper(SubSeq(assessment, CodeStart(i), CodeEnd(CodeStart(i)) - 1)))
                    \o FromPos(CodeEnd(CodeStart(i)))
            ELSE FromPos(i + 1)
    IN  FromPos(1)

\* A validator that never looks at the plan for unsafe phrases.
_validate_clinical_safety_NoPhrases(soap_note) ==
    _validate_icd10_codes(soap_note)

\* _validate_clinical_safety: in an IPV case (a keyword occurs in the lowered
\* assessment) one critical warning per unsafe phrase that occurs in the
\* lowered plan, and one warning when the plan names no safety resource; then
\* the ICD-10 warnings.
_validate_clinical_safety(soap_note) ==
    LET assessment_lower == lower(Chars(soap_note.assessment))
        plan_lower == lower(Chars(soap_note.plan))
        ipv_keywords ==
            {"intimate partner violence", "ipv", "domestic violence", "domestic abuse",
             "partner abuse", "spousal abuse", "physical abuse", "assault",
             "violence by partner", "violence by spouse", "relationship violence"}
        unsafe_phrases ==
            <<"with partner", "with spouse", "with abuser", "include partner",
              "include spouse", "discuss with partner", "discuss with spouse",
              "involve partner", "involve spouse", "partner in safety", "spouse in safety">>
        safety_resources ==
            {"hotline", "shelter", "crisis", "emergency contact", "safe", "confidential",
             "resource"}
        RECURSIVE PhraseWarnings(_)
        PhraseWarnings(i) ==
            IF i > Len(unsafe_phrases) THEN <<>>
            ELSE (IF Occurs(unsafe_phrases[i], plan_lower)
                  THEN <<"CRITICAL SAFETY ISSUE: IPV case contains unsafe phrase '"
                            \o unsafe_phrases[i] \o "' in safety plan.">>
                  ELSE <<>>) \o PhraseWarnings(i + 1)
    IN  (IF \E keyword \in ipv_keywords : Occurs(keyword, assessment_lower)
         THEN PhraseWarnings(1)
                \o (IF \E resource \in safety_resources : Occurs(resource, plan_lower)
                    THEN <<>>
                    ELSE <<"WARNING: IPV case detected but no safety resources mentioned in plan.">>)
         ELSE <<>>)
        \o _validate_icd10_codes(soap_note)

\* str(n) of a natural number.
RECURSIVE IntStr(_)
IntStr(n) ==
    IF n < 10 THEN SubSeq(Digits, n + 1, n + 1)
    ELSE IntStr(n \div 10) \o SubSeq(Digits, (n % 10) + 1, (n % 10) + 1)

\* int(s) of a run of digits.
RECURSIVE StrInt(_)
StrInt(s) ==
    IF s = "" THEN 0
    ELSE 10 * StrInt(SubSeq(s, 1, Len(s) - 1))
            + (CHOOSE d \in 0..9 : SubSeq(Digits, d + 1, d + 1) = SubSeq(s, Len(s), Len(s)))

\* 10 ** k
RECURSIVE Pow10(_)
Pow10(k) == IF k = 0 THEN 1 ELSE 10 * Pow10(k - 1)

\* str(x) of the float x = n / 10**k, for the values a float holds exactly:
\* the integer part, a point, and the fraction without its trailing zeros.
FloatStr(n, k) ==
    LET RECURSIVE Fraction(_, _)
        Fraction(f, width) ==
            IF width = 0 \/ f = 0 THEN ""
            ELSE IntStr(f \div Pow10(width - 1)) \o Fraction(f % Pow10(width - 1), width - 1)
        OrZero(digits) == IF digits = "" THEN "0" ELSE digits
    IN  IntStr(n \div Pow10(k)) \o "." \o OrZero(Fraction(n % Pow10(k), k))

\* total_daily: the dose times 3, 4 or 2 when 'tid', 'qid' or 'bid' (looked
\* for in this order) occurs anywhere in the lowered plan, else the dose.
DailyTotal(plan_lower, dose) ==
    IF Occurs("tid", plan_lower) THEN dose * 3
    ELSE IF Occurs("qid", plan_lower) THEN dose * 4
    ELSE IF Occurs("bid", plan_lower) THEN dose * 2
    ELSE dose

\* re.findall(name + r'\s+(\d+(?:\.\d+)?)\s*mg', plan_lower): the doses, as
\* <<digits before the point, digits after it>>, in the order of the matches.
RECURSIVE DoseMatches(_, _, _)
DoseMatches(s, name, i) ==
    LET NumStart == Skip(s, i + Len(name), Spaces)
        IntEnd(a) == Skip(s, a, Digits)
        NumEnd(a) ==
            IF StartsAt(s, IntEnd(a), ".") /\ Skip(s, IntEnd(a) + 1, Digits) > IntEnd(a) + 1
            THEN Skip(s, IntEnd(a) + 1, Digits)
            ELSE IntEnd(a)
        Dose(a) == <<SubSeq(s, a, IntEnd(a) - 1), SubSeq(s, IntEnd(a) + 1, NumEnd(a) - 1)>>
        Matched(a) ==
            /\ a > i + Len(name)
            /\ IntEnd(a) > a
            /\ StartsAt(s, Skip(s, NumEnd(a), Spaces), "mg")
    IN  IF i > Len(s) THEN <<>>
        ELSE IF StartsAt(s, i, name) /\ Matched(NumStart)
        THEN <<Dose(NumStart)>> \o DoseMatches(s, name, Skip(s, NumEnd(NumStart), Spaces) + 2)
        ELSE DoseMatches(s, name, i + 1)

\* The high-dose benzodiazepine check of _validate_clinical_logic. Doses and
\* ceilings are compared as integers scaled by 10 ** (digits after the point).
BenzoWarnings(plan_lower) ==
    LET benzo_patterns ==
            <<<<"clonazepam", 2, "clonazepam">>, <<"klonopin", 2, "klonopin (clonazepam)">>,
              <<"lorazepam", 4, "lorazepam">>, <<"ativan", 4, "ativan (lorazepam)">>,
              <<"alprazolam", 4, "alprazolam">>, <<"xanax", 4, "xanax (alprazolam)">>>>
        Scaled(dose_str) == StrInt(dose_str[1] \o dose_str[2])
        Warning(max_dose, med_name, dose_str) ==
            IF DailyTotal(plan_lower, Scaled(dose_str)) > max_dose * Pow10(Len(dose_str[2]))
            THEN <<"HIGH-DOSE BENZODIAZEPINE: " \o med_name \o " "
                      \o FloatStr(DailyTotal(plan_lower, Scaled(dose_str)), Len(dose_str[2]))
                      \o "mg/day exceeds typical maximum of " \o FloatStr(max_dose, 0)
                      \o "mg/day.">>
            ELSE <<>>
        RECURSIVE PerDose(_, _, _)
        PerDose(max_dose, med_name, matches) ==
            IF matches = <<>> THEN <<>>
            ELSE Warning(max_dose, med_name, Head(matches))
                    \o PerDose(max_dose, med_name, Tail(matches))
        RECURSIVE PerPattern(_)
        PerPattern(i) ==
            IF i > Len(benzo_patterns) THEN <<>>
            ELSE PerDose(benzo_patterns[i][2], benzo_patterns[i][3],
                         DoseMatches(plan_lower, benzo_patterns[i][1], 1))
                    \o PerPattern(i + 1)
    IN  PerPattern(1)

\* _validate_clinical_logic, in the order of the source: vital signs in the
\* subjective section (one warning at most), a pain medication without
\* documented pain, 'no significant findings' with a medication block, a
\* scheduled frequency next to an as-needed marker (one warning at most, its
\* text without the fragment it cites), and the benzodiazepine doses.
_validate_clinical_logic(soap_note) ==
    LET subjective_lower == lower(Chars(soap_note.subjective))
        plan_lower == lower(Chars(soap_note.plan))
        objective_lower == lower(Chars(soap_note.objective))
        \* \s*[:=]?\s* from position i
        OptSep(s, a) == IF a <= Len(s) /\ Occurs(SubSeq(s, a, a), ":=") THEN a + 1 ELSE a
        AfterSep(s, i) == Skip(s, OptSep(s, Skip(s, i, Spaces)), Spaces)
        DigitAt(s, i) == Skip(s, i, Digits) > i
        \* word\s*[:=]?\s*\d+
        Measured(s, word) ==
            \E i \in 1..Len(s) : StartsAt(s, i, word) /\ DigitAt(s, AfterSep(s, i + Len(word)))
        \* word\s*[:=]?\s*\d+[/]\d+
        Ratio(s, word) ==
            \E i \in 1..Len(s) :
                /\ StartsAt(s, i, word)
                /\ DigitAt(s, AfterSep(s, i + Len(word)))
                /\ StartsAt(s, Skip(s, AfterSep(s, i + Len(word)), Digits), "/")
                /\ DigitAt(s, Skip(s, AfterSep(s, i + Len(word)), Digits) + 1)
        \* t\s*[:=]?\s*\d+\.?\d*\s*[fc]
        AfterPoint(s, e) == IF StartsAt(s, e, ".") THEN e + 1 ELSE e
        Degrees(s) ==
            \E i \in 1..Len(s) :
                /\ StartsAt(s, i, "t")
                /\ DigitAt(s, AfterSep(s, i + 1))
                /\ \E u \in {Skip(s, Skip(s, AfterPoint(s, Skip(s, AfterSep(s, i + 1), Digits)),
                                       Digits), Spaces)} :
                      u <= Len(s) /\ Occurs(SubSeq(s, u, u), "fc")
        \* o2\s*sat\s*[:=]?\s*\d+
        Saturation(s) ==
            \E i \in 1..Len(s) :
                /\ StartsAt(s, i, "o2")
                /\ StartsAt(s, Skip(s, i + 2, Spaces), "sat")
                /\ DigitAt(s, AfterSep(s, Skip(s, i + 2, Spaces) + 3))
        pain_meds ==
            {"ibuprofen", "acetaminophen", "naproxen", "aspirin", "tylenol", "advil",
             "motrin", "aleve", "oxycodone", "hydrocodone", "morphine", "tramadol"}
        pain_keywords == {"pain", "tender", "ache", "sore", "discomfort", "hurts", "painful"}
        \* r'medications?[:]\s*(.*?)(?=\n\d+\.|\n[A-Z]|$)' with DOTALL on the
        \* lowered plan: group 1 of the first match, or None.
        HeadEnd(s, i) == IF StartsAt(s, i + 10, "s") THEN i + 11 ELSE i + 10
        IsHead(s, i) == StartsAt(s, i, "medication") /\ StartsAt(s, HeadEnd(s, i), ":")
        Ahead(s, p) ==
            \/ p > Len(s)
            \/ p = Len(s) /\ StartsAt(s, p, "\n")
            \/ /\ StartsAt(s, p, "\n")
               /\ DigitAt(s, p + 1)
               /\ StartsAt(s, Skip(s, p + 1, Digits), ".")
        GroupFrom(s, a) ==
            SubSeq(s, a, (CHOOSE p \in a..(Len(s) + 1) :
                              Ahead(s, p) /\ \A q \in a..(p - 1) : ~Ahead(s, q)) - 1)
        FirstHead(s) == CHOOSE i \in 1..Len(s) : IsHead(s, i) /\ \A k \in 1..(i - 1) : ~IsHead(s, k)
        RECURSIVE StripChars(_)
        StripChars(s) ==
            IF s # "" /\ Occurs(SubSeq(s, 1, 1), Spaces) THEN StripChars(SubSeq(s, 2, Len(s)))
            ELSE IF s # "" /\ Occurs(SubSeq(s, Len(s), Len(s)), Spaces)
            THEN StripChars(SubSeq(s, 1, Len(s) - 1))
            ELSE s
        Prescribes(meds_text) ==
            /\ meds_text # ""
            /\ \A term \in {"vitamin", "supplement", "follow-up", "continue"} :
                  ~Occurs(term, meds_text)
            /\ Len(StripChars(meds_text)) > 10
        \* the three tid_prn_patterns
        Frequencies == {"tid", "bid", "qid"}
        AsNeededAt(s, i) ==
            \/ StartsAt(s, i, "prn")
            \/ /\ StartsAt(s, i, "as")
               /\ Skip(s, i + 2, Spaces) > i + 2
               /\ StartsAt(s, Skip(s, i + 2, Spaces), "needed")
        AsNeededEnd(s, i) ==
            IF StartsAt(s, i, "prn") THEN i + 3 ELSE Skip(s, i + 2, Spaces) + 6
        Conflict(s) ==
            \/ \E i \in 1..Len(s), f \in Frequencies :
                  /\ StartsAt(s, i, f)
                  /\ Skip(s, i + 3, Spaces) > i + 3
                  /\ AsNeededAt(s, Skip(s, i + 3, Spaces))
            \/ \E i \in 1..Len(s), f \in Frequencies :
                  /\ AsNeededAt(s, i)
                  /\ Skip(s, AsNeededEnd(s, i), Spaces) > AsNeededEnd(s, i)
                  /\ StartsAt(s, Skip(s, AsNeededEnd(s, i), Spaces), f)
            \/ \E i \in 1..Len(s), f \in Frequencies :
                  /\ StartsAt(s, i, f)
                  /\ \E q \in (i + 3)..Len(s) :
                        /\ ~Occurs("\n", SubSeq(s, i + 3, q - 1))
                        /\ Occurs(SubSeq(s, q, q), Spaces)
                        /\ AsNeededAt(s, Skip(s, q, Spaces))
    IN  (IF \/ Ratio(subjective_lower, "bp")
            \/ Ratio(subjective_lower, "blood pressure")
            \/ \E word \in {"hr", "heart rate", "rr", "respiratory rate", "temperature"} :
                  Measured(subjective_lower, word)
            \/ Degrees(subjective_lower)
            \/ Saturation(subjective_lower)
         THEN <<"STRUCTURE ERROR: Vital sign measurement found in SUBJECTIVE section.">>
         ELSE <<>>)
        \o (IF /\ \E med \in pain_meds : Occurs(med, plan_lower)
               /\ \A keyword \in pain_keywords :
                     ~Occurs(keyword, subjective_lower) /\ ~Occurs(keyword, objective_lower)
            THEN <<"CLINICAL LOGIC ERROR: Pain medication prescribed but no pain documented.">>
            ELSE <<>>)
        \o (IF /\ Occurs("no significant findings", objective_lower)
               /\ \E i \in 1..Len(plan_lower) : IsHead(plan_lower, i)
               /\ Prescribes(GroupFrom(plan_lower,
                                       Skip(plan_lower,
                                            HeadEnd(plan_lower, FirstHead(plan_lower)) + 1,
                                            Spaces)))
            THEN <<"CLINICAL LOGIC WARNING: Objective section states 'no significant findings' but medications are prescribed in Plan.">>
            ELSE <<>>)
        \o (IF Conflict(plan_lower)
            THEN <<"MEDICATION ERROR: Found contradictory frequency.">>
            ELSE <<>>)
        \o BenzoWarnings(plan_lower)

\* A block that holds the title and the rules but none of the warnings.
WarningText_TitleOnly(all_warnings) ==
    <<"\n", "\n", "=" , "\n", "VALIDATION WARNINGS", "\n", "=", "\n", "\n", "=">>

\* warning_text of generate / agenerate: a rule, the title, a rule, the
\* warnings joined by line breaks, a rule; "=" * 70 is one token.
WarningText(all_warnings) ==
    LET RECURSIVE JoinLines(_)
        JoinLines(lines) ==
            IF Len(lines) <= 1 THEN lines
            ELSE <<Head(lines), "\n">> \o JoinLines(Tail(lines))
    IN  <<"\n", "\n", "=" , "\n", "VALIDATION WARNINGS", "\n", "=", "\n">>
            \o JoinLines(all_warnings) \o <<"\n", "=">>

\* What a call left: its raw response, the exception it raised or the note it
\* returned, and (history) the all_warnings list it computed, the language
\* the generator was given and the language the caller supplied.
Generation(op, response, raised, note, all_warnings) ==
    [op |-> op, response |-> response, raised |-> raised, note |-> note,
     all_warnings |-> all_warnings, language |-> None, supplied |-> None]

NoGeneration == Generation("none", <<>>, None, None, <<>>)

\* generate / agenerate: an empty or blank transcription and a failing chain
\* raise SOAPGenerationError; otherwise the response is parsed, validated, the
\* warnings are appended to the plan as text, and the note is returned. The
\* language goes into the prompt (target_language) and nowhere else.
generate(transcription, language, chain_raises, raw_response) ==
    LET Returned(soap_note, all_warnings) ==
            Generation("generate", raw_response, None,
                       Some(IF all_warnings # <<>>
                            THEN [soap_note EXCEPT !.plan = @ \o WarningText(all_warnings)]
                            ELSE soap_note),
                       all_warnings)
        Validated(soap_note) ==
            Returned(soap_note, _validate_clinical_safety(soap_note)
                                    \o _validate_clinical_logic(soap_note))
    IN  [(IF Strip(transcription) = <<>>
          THEN Generation("generate", <<>>,
                          Some(SOAPGenerationError("Empty transcription provided")), None, <<>>)
          ELSE IF chain_raises
          THEN Generation("generate", <<>>,
                          Some(SOAPGenerationError("ConnectionError")), None, <<>>)
          ELSE Validated(_parse_soap_response(raw_response)))
         EXCEPT !.language = Some(language)]

\* agenerate: the same steps as generate around `await chain.ainvoke`.
agenerate(transcription, language, chain_raises, raw_response) ==
    [generate(transcription, language, chain_raises, raw_response) EXCEPT !.op = "agenerate"]

\* Generator responses. Arbitrary ones: every text of at most n tokens.
\* Repeated ones: two or three header-and-content blocks in any order.
\* Canonical ones: the four headers in order, each on its own line and
\* followed by a body taken from Bodies, the four bodies distinct.
Bodies ==
    {<<"knee pain", "\n", "since monday">>, <<"temp 38.5 C">>,
     <<"domestic violence injury">>, <<"ibuprofen 400 mg">>,
     <<"shelter hotline given">>, <<"Flu">>,
     <<"rest", "\n", "---", "\n", "return in a week">>}

BodyTuples ==
    {b \in [1..4 -> Bodies] : \A i, k \in 1..4 : b[i] = b[k] => i = k}

CanonicalText(b) ==
    <<"SUBJECTIVE:", "\n">> \o b[1] \o <<"\n", "OBJECTIVE:", "\n">> \o b[2]
        \o <<"\n", "ASSESSMENT:", "\n">> \o b[3] \o <<"\n", "PLAN:", "\n">> \o b[4]

ArbitraryTexts(n) ==
    LET TextTokens ==
            {"SUBJECTIVE:", "OBJECTIVE:", "ASSESSMENT:", "PLAN:", "\n", "---", "Flu",
             "cough for days"}
        RECURSIVE TextsOfLen(_)
        TextsOfLen(m) ==
            IF m = 0 THEN {<<>>}
            ELSE {Append(t, tok) : t \in TextsOfLen(m - 1), tok \in TextTokens}
    IN  UNION {TextsOfLen(m) : m \in 0..n}

\* What the extractor is called with.
Responses ==
    LET Blocks ==
            {<<HeaderOf(SectionNames[i]), "\n">> \o content \o <<"\n">> :
                i \in 1..4, content \in {<<>>, <<"---">>, <<"Flu">>, <<"cough for days">>}}
    IN  ArbitraryTexts(MaxTextLen)
            \cup {b1 \o b2 \o b3 : b1 \in Blocks, b2 \in Blocks, b3 \in Blocks \cup {<<>>}}
            \cup {CanonicalText(b) : b \in BodyTuples}

\* What the chain answers when a note is generated: the canonical responses
\* and the arbitrary ones of at most MaxAnswerLen tokens.
Answers ==
    ArbitraryTexts(MaxAnswerLen) \cup {CanonicalText(b) : b \in BodyTuples}

\* A caller hands one response to the extractor.
Call_parse_soap_response(response) ==
    /\ soap.op = "none"
    /\ soap' = Generation("_parse_soap_response", response, None,
                          Some(_parse_soap_response(response)), <<>>)
    /\ UNCHANGED <<storeAndRest, ws, prog, whisper>>

\* A caller generates one note, leaving the language to its default; the
\* chain fails or answers with raw_response.
Call_generate(transcription, chain_raises, raw_response) ==
    /\ soap.op = "none"
    /\ soap' = generate(transcription, "en", chain_raises, raw_response)
    /\ UNCHANGED <<storeAndRest, ws, prog, whisper>>

\* Languages a caller of the pipeline's SOAP-only entry points supplies: none,
\* or a code.
LanguageArgs == {None, Some("en"), Some("es")}

\* MedicalDocumentationPipeline.generate_soap_only(transcription). The
\* signature has no language parameter: a call that supplies one raises
\* TypeError before the body runs. The body calls
\* soap_generator.generate(transcription), whose language defaults to "en".
Call_generate_soap_only(transcription, language, chain_raises, raw_response) ==
    /\ soap.op = "none"
    /\ soap' = [(IF language # None
                 THEN Generation("generate_soap_only", <<>>,
                                 Some(Unclassified("TypeError",
                                        <<"generate_soap_only() got an unexpected argument">>)),
                                 None, <<>>)
                 ELSE generate(transcription, "en", chain_raises, raw_response))
                EXCEPT !.op = "generate_soap_only", !.supplied = language]
    /\ UNCHANGED <<storeAndRest, ws, prog, whisper>>

\* MedicalDocumentationPipeline.agenerate_soap_only(transcription, language="en")
\* awaits soap_generator.agenerate(transcription, language).
Call_agenerate_soap_only(transcription, language, chain_raises, raw_response) ==
    /\ soap.op = "none"
    /\ soap' = [agenerate(transcription, IF language = None THEN "en" ELSE language[1],
                          chain_raises, raw_response)
                EXCEPT !.op = "agenerate_soap_only", !.supplied = language]
    /\ UNCHANGED <<storeAndRest, ws, prog, whisper>>

\* Notes handed to the validators alone: every combination of these section
\* texts, each one token. Doses have at most two digits after the point and
\* their daily totals are values a float holds exactly.
ValidatorNotes ==
    LET SubjectiveTexts == {<<"knee pain since monday">>, <<"BP 120/80 today">>, <<"feels fine">>}
        ObjectiveTexts == {<<"No significant findings">>, <<"tender knee">>}
        AssessmentTexts ==
            {<<"domestic violence injury">>, <<"Injuries after Assault by spouse">>,
             <<"Anxiety ICD-10: F32.1">>, <<"ICD-10: X34.0 injury">>, <<"Flu">>,
             <<"skipped breakfast, dizzy">>}
        PlanTexts ==
            {<<"rest">>, <<"Discuss with partner">>, <<"shelter hotline given">>,
             <<"safety plan: involve spouse in safety, hotline">>,
             <<"Clonazepam 1 mg TID">>, <<"clonazepam 0.5 mg QHS PRN">>,
             <<"Clonazepam 1mg BID">>, <<"klonopin 0.5 mg QID">>, <<"klonopin 0.75 mg qid">>,
             <<"lorazepam 2 mg bid">>, <<"ativan 1.5 mg TID">>, <<"alprazolam 4 mg">>,
             <<"xanax 4.25 mg at night">>, <<"clonazepam 2.5 mg">>,
             <<"clonazepam 1 mg bid, lorazepam 1 mg qid">>,
             <<"clonazepam 0.5 mg, clonazepam 3 mg">>,
             <<"clonazepam 1.5 mg at bedtime, continue antidepressant">>,
             <<"lorazepam 2 mg morning and 3 mg at bedtime">>,
             <<"Ibuprofen 400mg TID PRN">>, <<"Ibuprofen 400mg TID x 5 days">>,
             <<"Medications: amoxicillin 500 mg daily\n2. return in a week">>}
    IN  {SOAPNote(s, o, a, p) :
            s \in SubjectiveTexts, o \in ObjectiveTexts, a \in AssessmentTexts, p \in PlanTexts}

\* A caller hands one note to a validator.
Call_validate_clinical_safety(soap_note) ==
    /\ soap.op = "none"
    /\ soap' = Generation("_validate_clinical_safety", <<>>, None, Some(soap_note),
                          _validate_clinical_safety(soap_note))
    /\ UNCHANGED <<storeAndRest, ws, prog, whisper>>

Call_validate_clinical_logic(soap_note) ==
    /\ soap.op = "none"
    /\ soap' = Generation("_validate_clinical_logic", <<>>, None, Some(soap_note),
                          _validate_clinical_logic(soap_note))
    /\ UNCHANGED <<storeAndRest, ws, prog, whisper>>

\* ------------------------------------------------------------- transcriber
\* transcriber.py. atranscribe hands transcribe to a worker thread
\* (asyncio.to_thread); the threads of concurrent calls share the
\* WhisperTranscriber and interleave between any two statements.
Threads == 1..MaxCalls

\* WhisperTranscriber() without a preloaded model: _model is None and
\* _model_loaded is False. loads counts the calls of whisper.load_model, each
\* of which builds a new model instance, named by its number. Per thread: its
\* position, the instance its load returned, and the instance whose
\* transcribe it called.
NewTranscriber ==
    [_model |-> None, _model_loaded |-> FALSE, loads |-> 0,
     thread |-> [t \in Threads |-> [pc |-> "idle", loaded |-> None, used |-> None]]]

\* atranscribe: await asyncio.to_thread(self.transcribe, audio_path); the
\* thread runs transcribe up to `self.model`.
atranscribe_Start(t) ==
    /\ whisper.thread[t].pc = "idle"
    /\ whisper' = [whisper EXCEPT !.thread[t].pc = "model"]
    /\ UNCHANGED <<storeAndRest, ws, prog, soap>>

\* The model property, line 162: `if not self._model_loaded`.
model_Check(t) ==
    /\ whisper.thread[t].pc = "model"
    /\ whisper' = [whisper EXCEPT
                     !.thread[t].pc = IF whisper._model_loaded THEN "return" ELSE "load"]
    /\ UNCHANGED <<storeAndRest, ws, prog, soap>>

\* _load_model, lines 216-219: whisper.load_model(...) returns a new instance,
\* or raises and _load_model raises WhisperModelError, which transcribe wraps.
load_model_Call(t, ok) ==
    /\ whisper.thread[t].pc = "load"
    /\ whisper' = IF ok
                  THEN [whisper EXCEPT !.loads = @ + 1,
                                       !.thread[t].loaded = Some(whisper.loads + 1),
                                       !.thread[t].pc = "assign"]
                  ELSE [whisper EXCEPT !.thread[t].pc = "raised"]
    /\ UNCHANGED <<storeAndRest, ws, prog, soap>>

\* line 216: self._model = <the instance load_model returned>
load_model_Assign(t) ==
    /\ whisper.thread[t].pc = "assign"
    /\ whisper' = [whisper EXCEPT !._model = whisper.thread[t].loaded,
                                  !.thread[t].pc = "flag"]
    /\ UNCHANGED <<storeAndRest, ws, prog, soap>>

\* line 220: self._model_loaded = True
load_model_SetLoaded(t) ==
    /\ whisper.thread[t].pc = "flag"
    /\ whisper' = [whisper EXCEPT !._model_loaded = TRUE, !.thread[t].pc = "return"]
    /\ UNCHANGED <<storeAndRest, ws, prog, soap>>

\* line 164 and transcribe line 282: `return self._model`, and the thread
\* calls transcribe on the instance it got.
model_Return(t) ==
    /\ whisper.thread[t].pc = "return"
    /\ whisper' = [whisper EXCEPT !.thread[t].used = whisper._model,
                                  !.thread[t].pc = "transcribed"]
    /\ UNCHANGED <<storeAndRest, ws, prog, soap>>

\* ------------------------------------------------------------- specifications
Init ==
    /\ useRedis \in BOOLEAN
    /\ redis = [j \in JobIds |-> None]
    /\ mem = [m \in Managers |-> [j \in JobIds |-> None]]
    /\ chan = [j \in JobIds |-> <<>>]
    /\ clock = 0
    /\ faults = 0
    /\ ops = 0
    /\ issued = {}
    /\ ret = [op |-> "none"]
    /\ task = [j \in JobIds |-> IdleTask]
    /\ file = [j \in JobIds |-> FALSE]
    /\ run = [r \in Runners |-> IdleRun]
    /\ ws = IdleStream
    /\ prog = [last |-> NoCall, prev |-> NoCall]
    /\ soap = NoGeneration
    /\ whisper = NewTranscriber

AsyncPipelineStep(r) ==
    \/ \E choice \in BOOLEAN : ARunTranscription_Start(r, choice)
    \/ \E choice \in BOOLEAN : ARunTranscription_Mid(r, choice)
    \/ ARunTranscription_Call(r)
    \/ \E choice \in BOOLEAN : ARunTranscription_Done(r, choice)
    \/ \E choice \in BOOLEAN : ARunSoapGeneration_Start(r, choice)
    \/ \E choice \in BOOLEAN : ARunSoapGeneration_Analyze(r, choice)
    \/ \E choice \in BOOLEAN : ARunSoapGeneration_BeforeLLM(r, choice)
    \/ ARunSoapGeneration_Call(r)
    \/ \E choice \in BOOLEAN : ARunSoapGeneration_Done(r, choice)
    \/ \E choice \in BOOLEAN : AProcess_Complete(r, choice)
    \/ \E choice \in BOOLEAN : AProcess_Except(r, choice)

SyncPipelineStep(r) ==
    \/ \E choice \in BOOLEAN : RunTranscription_Start(r, choice)
    \/ \E choice \in BOOLEAN : RunTranscription_Mid(r, choice)
    \/ RunTranscription_Call(r)
    \/ \E choice \in BOOLEAN : RunTranscription_Done(r, choice)
    \/ \E choice \in BOOLEAN : RunSoapGeneration_Start(r, choice)
    \/ \E choice \in BOOLEAN : RunSoapGeneration_Analyze(r, choice)
    \/ \E choice \in BOOLEAN : RunSoapGeneration_BeforeLLM(r, choice)
    \/ RunSoapGeneration_Call(r)
    \/ \E choice \in BOOLEAN : RunSoapGeneration_Done(r, choice)
    \/ \E choice \in BOOLEAN : Process_Complete(r, choice)
    \/ \E choice \in BOOLEAN : Process_Except(r, choice)

TaskStep(j) ==
    \/ process_audio_task_Start(j)
    \/ \E fault \in {"none", "setex", "publish"} : process_audio_task_Complete(j, fault)
    \/ \E fault \in {"none", "setex", "publish"} : process_audio_task_Except(j, fault)
    \/ \E fault \in {"none", "setex", "publish"} : transcribe_audio_task_Start(j, fault)
    \/ transcribe_audio_task_Work(j)
    \/ \E fault \in {"none", "setex", "publish"} : transcribe_audio_task_Finalizing(j, fault)
    \/ \E fault \in {"none", "setex", "publish"} : transcribe_audio_task_Complete(j, fault)
    \/ \E fault \in {"none", "setex", "publish"} : transcribe_audio_task_Except(j, fault)
    \/ \E fault \in {"none", "setex", "publish"} : generate_soap_task_Start(j, fault)
    \/ generate_soap_task_Work(j)
    \/ \E fault \in {"none", "setex", "publish"} : generate_soap_task_Finalizing(j, fault)
    \/ \E fault \in {"none", "setex", "publish"} : generate_soap_task_Complete(j, fault)
    \/ \E fault \in {"none", "setex", "publish"} : generate_soap_task_Except(j, fault)

SubmitStep(j) ==
    \/ \E uploadOk \in BOOLEAN, fault \in {"none", "setex"} : submit_process_job(j, uploadOk, fault)
    \/ \E uploadOk \in BOOLEAN, fault \in {"none", "setex"} : submit_transcribe_job(j, uploadOk, fault)
    \/ \E fault \in {"none", "setex"} : submit_soap_generation_job(j, fault)

\* The served system.
Next ==
    \/ (\E j \in JobIds : SubmitStep(j)) /\ UNCHANGED <<ws, prog, soap, whisper>>
    \/ (\E j \in JobIds : TaskStep(j)) /\ UNCHANGED <<ws, prog, soap, whisper>>
    \/ (\E j \in JobIds : AsyncPipelineStep(j)) /\ UNCHANGED <<ws, prog, soap, whisper>>
    \/ Tick /\ UNCHANGED <<ws, prog, soap, whisper>>

Spec == Init /\ [][Next]_vars

\* The JobManager API called directly. With Redis every instance reads and
\* writes the same keys, so one instance stands for all of them.
Callers == IF useRedis THEN {"api"} ELSE Managers

\* Jobs are created on the endpoints' instance.
Creators == {"api"}

StoreNext ==
    \/ (\E m \in Creators, j \in JobIds, job_type \in TypeArgs, metadata \in MetaArgs,
           fault \in {"none", "setex"} : Call_create_job(m, j, job_type, metadata, fault))
       /\ UNCHANGED <<ws, prog, soap, whisper>>
    \/ (\E m \in Callers, j \in JobIds : Call_get_job(m, j)) /\ UNCHANGED <<ws, prog, soap, whisper>>
    \/ (\E m \in Callers, j \in JobIds, progress \in ProgressArgs, stage \in StageArgs,
           fault \in {"none", "setex", "publish"} :
             Call_set_job_progress(m, j, progress, stage, fault))
       /\ UNCHANGED <<ws, prog, soap, whisper>>
    \/ (\E m \in Callers, j \in JobIds, result \in ResultArgs,
           fault \in {"none", "setex", "publish"} :
             Call_set_job_completed(m, j, result, fault))
       /\ UNCHANGED <<ws, prog, soap, whisper>>
    \/ (\E m \in Callers, j \in JobIds, error \in ErrorArgs,
           fault \in {"none", "setex", "publish"} :
             Call_set_job_failed(m, j, error, fault))
       /\ UNCHANGED <<ws, prog, soap, whisper>>
    \/ (\E j \in JobIds : Expire(j)) /\ UNCHANGED <<ws, prog, soap, whisper>>
    \/ RetentionWindow /\ UNCHANGED <<ws, prog, soap, whisper>>
    \/ Tick /\ UNCHANGED <<ws, prog, soap, whisper>>

StoreSpec == Init /\ [][StoreNext]_vars

\* The pipeline called directly.
PipeNext ==
    \/ (\E cb \in {"none", "observer"} : Call_process(cb)) /\ UNCHANGED <<ws, prog, soap, whisper>>
    \/ (\E cb \in {"none", "observer"} : Call_aprocess(cb)) /\ UNCHANGED <<ws, prog, soap, whisper>>
    \/ SyncPipelineStep("direct") /\ UNCHANGED <<ws, prog, soap, whisper>>
    \/ AsyncPipelineStep("direct") /\ UNCHANGED <<ws, prog, soap, whisper>>

PipeSpec == Init /\ [][PipeNext]_vars

\* The pipeline called twice on the same input with the same collaborators.
PairNext ==
    \/ (\E cb \in {"none", "observer"} : Call_process(cb)) /\ UNCHANGED <<ws, prog, soap, whisper>>
    \/ (\E cb \in {"none", "observer"} : Call_aprocess(cb)) /\ UNCHANGED <<ws, prog, soap, whisper>>
    \/ SyncPipelineStep("direct") /\ UNCHANGED <<ws, prog, soap, whisper>>
    \/ AsyncPipelineStep("direct") /\ UNCHANGED <<ws, prog, soap, whisper>>
    \/ Again_process /\ UNCHANGED <<ws, prog, soap, whisper>>
    \/ Again_aprocess /\ UNCHANGED <<ws, prog, soap, whisper>>
    \/ SyncPipelineStep("ref") /\ RefFollows' /\ UNCHANGED <<ws, prog, soap, whisper>>
    \/ AsyncPipelineStep("ref") /\ RefFollows' /\ UNCHANGED <<ws, prog, soap, whisper>>

PairSpec == Init /\ [][PairNext]_vars

\* One subscriber's handler next to a caller of the endpoints' JobManager.
StreamNext ==
    \/ (\E j \in JobIds : Call_create_job("api", j, "process", None, "none"))
       /\ UNCHANGED <<ws, prog, soap, whisper>>
    \/ (\E j \in JobIds, progress \in ProgressArgs, stage \in StageArgs :
          Call_set_job_progress("api", j, progress, stage, "none"))
       /\ UNCHANGED <<ws, prog, soap, whisper>>
    \/ (\E j \in JobIds, result \in ResultArgs :
          Call_set_job_completed("api", j, result, "none"))
       /\ UNCHANGED <<ws, prog, soap, whisper>>
    \/ (\E j \in JobIds, error \in ErrorArgs :
          Call_set_job_failed("api", j, error, "none"))
       /\ UNCHANGED <<ws, prog, soap, whisper>>
    \/ \E j \in JobIds : ws_Connect(j)
    \/ ws_SendSnapshot
    \/ \E ok \in BOOLEAN : ws_Subscribe(ok)
    \/ ws_Relay
    \/ ws_ListenFails
    \/ ClientDisconnect
    \/ \E connLost \in BOOLEAN : ws_Finally(connLost)

StreamSpec == Init /\ [][StreamNext]_vars

\* The handler is a coroutine on the server's event loop: whenever its next
\* step can run (the snapshot can be sent, the subscription can be set up, a
\* delivered message waits in the subscription, the finally block is reached)
\* the loop runs it. Store calls, failures of the Redis connection and the
\* client's leaving are not owed to anyone.
StreamLiveSpec ==
    /\ StreamSpec
    /\ WF_vars(ws_SendSnapshot)
    /\ WF_vars(\E ok \in BOOLEAN : ws_Subscribe(ok))
    /\ WF_vars(ws_Relay)
    /\ WF_vars(\E connLost \in BOOLEAN : ws_Finally(connLost))

\* Concurrent atranscribe calls on one WhisperTranscriber.
LoadNext ==
    \E t \in Threads :
        \/ atranscribe_Start(t)
        \/ model_Check(t)
        \/ \E ok \in BOOLEAN : load_model_Call(t, ok)
        \/ load_model_Assign(t)
        \/ load_model_SetLoaded(t)
        \/ model_Return(t)

LoadSpec == Init /\ [][LoadNext]_vars

\* A caller of the two _ProgressHelper functions over the documented range.
ProgressNext ==
    \/ \E stage_percent \in StagePercents : Call_transcription_progress(stage_percent)
    \/ \E stage_percent \in StagePercents : Call_generation_progress(stage_percent)

ProgressSpec == Init /\ [][ProgressNext]_vars

\* A caller of the SOAP generator: the extractor alone, or a whole generation.
SoapNext ==
    \/ /\ soap.op = "none"
       /\ \E response \in Responses : Call_parse_soap_response(response)
    \/ /\ soap.op = "none"
       /\ \E transcription \in {<<>>, <<"\n">>, <<"Doctor: what brings you in today">>},
             chain_raises \in BOOLEAN,
             raw_response \in Answers :
               Call_generate(transcription, chain_raises, raw_response)
    \/ /\ soap.op = "none"
       /\ \E transcription \in {<<>>, <<"Doctor: what brings you in today">>},
             language \in LanguageArgs,
             chain_raises \in BOOLEAN,
             raw_response \in {CanonicalText(b) : b \in {b \in BodyTuples : b[1] = <<"Flu">>}} :
               \/ Call_generate_soap_only(transcription, language, chain_raises, raw_response)
               \/ Call_agenerate_soap_only(transcription, language, chain_raises, raw_response)
    \/ /\ soap.op = "none"
       /\ \E soap_note \in ValidatorNotes : Call_validate_clinical_safety(soap_note)
    \/ /\ soap.op = "none"
       /\ \E soap_note \in ValidatorNotes : Call_validate_clinical_logic(soap_note)

SoapSpec == Init /\ [][SoapNext]_vars

\* ------------------------------------------------------------- claims
\* The job record a reader of the store sees (GET /jobs/{id} uses the
\* endpoints' instance).
Record(j) == get_job("api", j)

Terminal == {"completed", "failed"}

TaskEnded(j) == task[j].pc \in {"returned", "raised"}

\* C1: when the transcription collaborator raises the file-not-found error in a
\* full-pipeline job, the job record ends failed, its error detail contains the
\* audio path, and its result is not populated, once process_audio_task has run.
C1_FileNotFoundEndsFailed ==
    \A j \in JobIds :
        ( /\ task[j].kind = "process"
          /\ TaskEnded(j)
          /\ run[j].exc = Some(AudioFileNotFoundError(TempPath(j))) )
        => /\ Record(j) # None
           /\ Record(j)[1].status = "failed"
           /\ Record(j)[1].error # None
           /\ Contains(Record(j)[1].error[1].message, TempPath(j))
           /\ Record(j)[1].result = None

\* C2: whatever the collaborators and the progress callback do, process and
\* aprocess return a result whose status is completed or failed, and no
\* exception leaves them.
C2_AlwaysTerminalNoRaise ==
    \A r \in Runners :
        /\ run[r].pc # "raised"
        /\ run[r].pc = "returned" => run[r].status \in Terminal

\* C2 witness: a direct run has returned failed after an unclassified
\* collaborator exception, with the observer raising inside the except clause.
C2_Witness ==
    /\ run["direct"].pc = "returned"
    /\ run["direct"].status = "failed"
    /\ run["direct"].exc # None
    /\ ~run["direct"].exc[1].classified
    /\ run["direct"].calls # <<>>
    /\ run["direct"].calls[Len(run["direct"].calls)].status = "failed"
    /\ run["direct"].calls[Len(run["direct"].calls)].raised

\* C3: every job created through a submission endpoint reaches completed or
\* failed in the store: once nothing more will act on the job (the request was
\* rejected, or its task has ended), the record is terminal.
C3_NoJobLeftNonTerminal ==
    \A j \in JobIds :
        (task[j].kind # "none" /\ (task[j].pc = "rejected" \/ TaskEnded(j)))
        => /\ Record(j) # None
           /\ Record(j)[1].status \in Terminal

\* C4: in a job record result and error are never both present, and both are
\* absent while the status is not completed or failed.
C4_ResultErrorExclusive ==
    \A j \in JobIds :
        Record(j) # None =>
            /\ ~(Record(j)[1].result # None /\ Record(j)[1].error # None)
            /\ Record(j)[1].status \notin Terminal
                 => (Record(j)[1].result = None /\ Record(j)[1].error = None)

\* C5: once a job record is completed or failed, no later operation changes its
\* status, progress, stage, result or error.
SameOutcome(a, b) ==
    /\ a.status = b.status
    /\ a.progress = b.progress
    /\ a.current_stage = b.current_stage
    /\ a.result = b.result
    /\ a.error = b.error

C5_TerminalAbsorbing ==
    [][\A j \in JobIds :
         (Record(j) # None /\ Record(j)[1].status \in Terminal)
         => /\ get_job_in(redis', mem', "api", j) # None
            /\ SameOutcome(Record(j)[1], get_job_in(redis', mem', "api", j)[1])]_vars

\* C6: a full-pipeline job is stored completed only if the pipeline run ended
\* completed, so the stored result of a completed job holds a structured note.
C6_CompletedOnlyIfRunCompleted ==
    \A j \in JobIds :
        ( /\ task[j].kind = "process"
          /\ Record(j) # None
          /\ Record(j)[1].status = "completed" )
        => /\ Record(j)[1].result # None
           /\ Record(j)[1].result[1].status = "completed"
           /\ Record(j)[1].result[1].soap_note # None

\* C7: within one run the result status moves only along
\* pending -> transcribing -> generating -> completed, or from a non-terminal
\* status to failed; nothing is skipped or revisited and nothing follows
\* completed or failed.
StatusSteps ==
    {<<"pending", "transcribing">>, <<"transcribing", "generating">>,
     <<"generating", "completed">>,
     <<"pending", "failed">>, <<"transcribing", "failed">>, <<"generating", "failed">>}

C7_StatusStateMachine ==
    [][\A r \in Runners :
         \/ run'[r].status = run[r].status
         \/ <<run[r].status, run'[r].status>> \in StatusSteps]_vars

\* C7 witness: a direct run went through every stage and returned completed.
C7_Witness ==
    /\ run["direct"].pc = "returned"
    /\ run["direct"].status = "completed"
    /\ run["direct"].soap_note # None

\* C8: every successful update of a job record emits exactly one change
\* notification on the job's channel, equal to the record as stored by the
\* update, whichever store implementation is in use.
UpdateOps == {"set_job_progress", "set_job_completed", "set_job_failed"}

IsUpdateCall == ops' = ops + 1 /\ ret'.op \in UpdateOps

C8_UpdateNotifiesOnce ==
    [][(IsUpdateCall /\ ret'.outcome = "ok")
       => /\ chan'[ret'.job_id] =
               Append(chan[ret'.job_id], JsonDumps(get_job_in(redis', mem', ret'.m, ret'.job_id)[1]))
          /\ \A j \in JobIds \ {ret'.job_id} : chan'[j] = chan[j]]_vars

\* C9: update, set_progress, set_completed and set_failed on an id that was
\* never created or has expired fail with the not-found error, leave the
\* store unchanged and emit no notification.
C9_UnknownIdNotFound ==
    [][(IsUpdateCall /\ get_job(ret'.m, ret'.job_id) = None)
       => /\ ret'.outcome = "not_found"
          /\ UNCHANGED <<redis, mem, chan>>]_vars

\* C9 witness: a job that existed (an update of it was published) has expired
\* and a further update of it was refused.
C9_Witness ==
    /\ ret.op \in UpdateOps
    /\ ret.outcome = "not_found"
    /\ chan[ret.job_id] # <<>>
    /\ redis[ret.job_id] = None

\* C10: right after create_job, get_job on the returned id yields a pending
\* record with progress 0, no stage, no result, no error and the job type and
\* metadata passed (no metadata is stored as the empty map); creating a
\* further job changes no existing record.
JustCreated == ret.op = "create_job" /\ ret.outcome = "ok"

C10_CreatedRecord ==
    JustCreated =>
        /\ get_job(ret.m, ret.job_id) # None
        /\ LET rec == get_job(ret.m, ret.job_id)[1] IN
           /\ rec.job_id = ret.job_id
           /\ rec.status = "pending"
           /\ rec.progress = 0
           /\ rec.current_stage = None
           /\ rec.result = None
           /\ rec.error = None
           /\ rec.job_type = ret.job_type
           /\ rec.metadata = IF ret.metadata = None THEN EmptyMeta ELSE ret.metadata[1]

C10_CreateThenGet ==
    /\ []C10_CreatedRecord
    /\ [][(ops' = ops + 1 /\ ret'.op = "create_job")
          => \A m \in Managers, j \in JobIds :
                get_job(m, j) # None => get_job_in(redis', mem', m, j) = get_job(m, j)]_vars

\* C10 witness: a second job has just been created beside an existing one.
C10_Witness ==
    /\ JustCreated
    /\ \E j \in JobIds \ {ret.job_id} : get_job(ret.m, j) # None

\* C11: after any sequence of store operations a job record's status is one of
\* pending, transcribing, generating, completed, failed; set_job_progress sets
\* it to the stage in flight.
StatusEnum == {"pending", "transcribing", "generating", "completed", "failed"}

C11_StatusInEnum ==
    \A m \in Managers, j \in JobIds :
        get_job(m, j) # None => get_job(m, j)[1].status \in StatusEnum

\* C12: set_job_failed changes only status (to failed), error and updated_at:
\* progress, current_stage, result, metadata, job_type and created_at keep the
\* values they had immediately before the call.
IsFailedCall == ops' = ops + 1 /\ ret'.op = "set_job_failed"

C12_SetFailedFrame ==
    [][(IsFailedCall /\ get_job(ret'.m, ret'.job_id) # None)
       => LET before == get_job(ret'.m, ret'.job_id)[1]
              after == get_job_in(redis', mem', ret'.m, ret'.job_id)[1]
          IN /\ after.progress = before.progress
             /\ after.current_stage = before.current_stage
             /\ after.result = before.result
             /\ after.metadata = before.metadata
             /\ after.job_type = before.job_type
             /\ after.created_at = before.created_at
             /\ ret'.outcome = "ok"
                  => (after.status = "failed" /\ after.error = Some(ret'.error))]_vars

\* C12 witness: set_job_failed has succeeded on a job whose progress and stage
\* an earlier set_job_progress had set; they are still there.
C12_Witness ==
    /\ ret.op = "set_job_failed"
    /\ ret.outcome = "ok"
    /\ get_job(ret.m, ret.job_id) # None
    /\ get_job(ret.m, ret.job_id)[1].status = "failed"
    /\ get_job(ret.m, ret.job_id)[1].progress = 40
    /\ get_job(ret.m, ret.job_id)[1].current_stage = Some("transcribing")

\* C13: a job record that receives no successful update for the retention
\* window is afterwards reported as not found by get_job, whichever store
\* implementation is in use.
C13_GoneAfterRetentionWindow ==
    ret.op = "window" => \A m \in Managers, j \in JobIds : get_job(m, j) = None

\* C14: persist and notify are one atomic step: in no reachable state, even
\* after update_job failed part-way, does the stored record reflect an update
\* for which no notification was emitted. Every update sets the status, so a
\* stored record that is no longer pending has been updated, and the last
\* message on its channel must be that record.
C14_PersistNotifyAtomic ==
    \A j \in JobIds :
        (redis[j] # None /\ JsonLoads(redis[j][1]).status # "pending")
        => /\ chan[j] # <<>>
           /\ chan[j][Len(chan[j])] = redis[j][1]

\* The callback invocations of a run for one status, and their progress values.
NotifiesOf(r, status) ==
    SelectSeq(run[r].trace, LAMBDA e : e.ev = "notify" /\ e.status = status)

ProgressesOf(r, status) ==
    [i \in 1..Len(NotifiesOf(r, status)) |-> NotifiesOf(r, status)[i].progress]

\* C16: in a run where both stages succeed, each stage reports exactly three
\* checkpoints to the progress callback: 0%, one mid-point and 100% of the
\* stage's local range (0..50 for transcription, 50..100 for generation).
C16_ThreeCheckpointsPerStage ==
    \A r \in Runners :
        (run[r].pc = "returned" /\ run[r].status = "completed" /\ run[r].cb # "none")
        => /\ Len(ProgressesOf(r, "transcribing")) = 3
           /\ ProgressesOf(r, "transcribing")[1] = transcription_progress(0)
           /\ ProgressesOf(r, "transcribing")[3] = transcription_progress(100)
           /\ Len(ProgressesOf(r, "generating")) = 3
           /\ ProgressesOf(r, "generating")[1] = generation_progress(0)
           /\ ProgressesOf(r, "generating")[3] = generation_progress(100)

\* C17: within one run every transcription checkpoint, the 100% one included,
\* is reported before the generation collaborator is invoked or any generation
\* checkpoint is reported, and generation is never started when transcription
\* failed.
GenerationEvent(e) ==
    \/ e.ev = "invoke" /\ e.collab = "generate"
    \/ e.ev \in {"notify", "status"} /\ e.status = "generating"

TranscriptionCheckpoint(e) == e.ev = "notify" /\ e.status = "transcribing"

C17_TranscriptionBeforeGeneration ==
    \A r \in Runners :
        LET t == run[r].trace IN
        \A i \in DOMAIN t :
            GenerationEvent(t[i]) =>
                /\ \A k \in DOMAIN t : TranscriptionCheckpoint(t[k]) => k < i
                /\ \E k \in 1..(i - 1) :
                        /\ t[k].ev = "invoke" /\ t[k].collab = "transcribe"
                        /\ t[k].outcome = None
                /\ \A k \in DOMAIN t :
                        ~(t[k].ev = "invoke" /\ t[k].collab = "transcribe"
                          /\ t[k].outcome # None)
                /\ run[r].cb # "none" =>
                        \E k \in 1..(i - 1) :
                            /\ TranscriptionCheckpoint(t[k])
                            /\ t[k].progress = transcription_progress(100)

\* C17 witness: a direct run with an observer, one of whose invocations raised,
\* has invoked the generation collaborator and returned.
C17_Witness ==
    /\ run["direct"].pc = "returned"
    /\ run["direct"].cb = "observer"
    /\ \E i \in DOMAIN run["direct"].trace :
            /\ run["direct"].trace[i].ev = "invoke"
            /\ run["direct"].trace[i].collab = "generate"
    /\ \E i \in DOMAIN run["direct"].calls : run["direct"].calls[i].raised

\* C18: while process_audio_task runs a full-pipeline job, every checkpoint the
\* pipeline reports is written to the store through the task's progress
\* callback: before the terminal update the job record's progress and stage
\* are those of the last checkpoint reported.
C18_CheckpointsReachStore ==
    \A j \in JobIds :
        (task[j].kind = "process" /\ task[j].pc = "pipeline" /\ run[j].calls # <<>>)
        => LET last == run[j].calls[Len(run[j].calls)] IN
           /\ Record(j) # None
           /\ Record(j)[1].progress = last.progress
           /\ Record(j)[1].current_stage = Some(last.status)

\* Both calls of a pair have returned; the collaborators did exactly the same
\* in both.
BothReturned == run["direct"].pc = "returned" /\ run["ref"].pc = "returned"

SameOutcomes ==
    \A i \in DOMAIN Invocations("ref"), k \in DOMAIN Invocations("direct") :
        Invocations("ref")[i].collab = Invocations("direct")[k].collab
        => Invocations("ref")[i].outcome = Invocations("direct")[k].outcome

CollaboratorsOf(r) == [i \in DOMAIN Invocations(r) |-> Invocations(r)[i].collab]

\* C15: whichever callback invocations raise, process and aprocess invoke the
\* same collaborators in the same order and return the same status,
\* transcription and note as the run in which no callback raises.
C15_ObserverFailureIsInert ==
    (BothReturned /\ run["direct"].path = run["ref"].path /\ SameOutcomes)
    => /\ CollaboratorsOf("direct") = CollaboratorsOf("ref")
       /\ run["direct"].status = run["ref"].status
       /\ run["direct"].transcription = run["ref"].transcription
       /\ run["direct"].soap_note = run["ref"].soap_note

\* C15 witness: a run in which callback invocations raised and the run of the
\* same path in which none raised have both completed.
C15_Witness ==
    /\ BothReturned /\ SameOutcomes
    /\ run["direct"].path = run["ref"].path
    /\ \E i \in DOMAIN run["direct"].calls : run["direct"].calls[i].raised
    /\ run["ref"].status = "completed"

\* C19: for the same collaborator outcomes process and aprocess produce the
\* same sequence of (status, progress) callback notifications, the same
\* sequence of result-status transitions and the same final status.
EventsOf(r, ev) == SelectSeq(run[r].trace, LAMBDA e : e.ev = ev)

C19_SyncAsyncEquivalent ==
    (BothReturned /\ run["direct"].path # run["ref"].path /\ SameOutcomes)
    => /\ EventsOf("direct", "notify") = EventsOf("ref", "notify")
       /\ EventsOf("direct", "status") = EventsOf("ref", "status")
       /\ run["direct"].status = run["ref"].status

\* C19 witness: process and aprocess with an observer have both returned failed
\* after the generation collaborator raised the same error in both.
C19_Witness ==
    /\ BothReturned /\ SameOutcomes
    /\ run["direct"].path = "sync" /\ run["ref"].path = "async"
    /\ run["direct"].cb = "observer"
    /\ run["ref"].status = "failed"
    /\ Len(Invocations("ref")) = 2

\* C20: when a collaborator raises an unclassified exception, the error message
\* recorded in the result and the one passed to the progress callback are a
\* fixed generic message: two runs that differ only in the text of the
\* exception show identical messages.
C20_GenericMessageForUnclassified ==
    ( /\ BothReturned
      /\ run["direct"].exc # None /\ run["ref"].exc # None
      /\ ~run["direct"].exc[1].classified /\ ~run["ref"].exc[1].classified
      /\ run["direct"].exc[1].cls = run["ref"].exc[1].cls
      /\ run["direct"].exc[1].message # run["ref"].exc[1].message )
    => /\ run["direct"].error_message = run["ref"].error_message
       /\ run["direct"].cb # "none" =>
            run["direct"].calls[Len(run["direct"].calls)].message
              = run["ref"].calls[Len(run["ref"].calls)].message

\* C21: when a collaborator raises a classified error, the failed result that
\* process / aprocess returns records it verbatim: its message and its details
\* bag are both present, unchanged, in the fields of the result that carry the
\* error.
ErrorFieldsOf(d) ==
    DOMAIN d \ {"status", "audio_file_path", "transcription", "soap_note"}

C21_ClassifiedErrorVerbatim ==
    \A r \in Runners :
        (run[r].pc = "returned" /\ run[r].exc # None /\ run[r].exc[1].classified)
        => LET d == ModelDump(run[r])
               e == run[r].exc[1]
           IN /\ d.status = "failed"
              /\ \E f \in ErrorFieldsOf(d) : d[f] = Some(e.message)
              /\ \E f \in ErrorFieldsOf(d) : d[f] = Some(e.details)

\* C22: within one run the transcription collaborator is invoked exactly once
\* and the generation collaborator at most once, and no collaborator is
\* invoked after one has failed: there is no retry.
InvocationsOf(r, collab) ==
    SelectSeq(run[r].trace, LAMBDA e : e.ev = "invoke" /\ e.collab = collab)

C22_NoRetry ==
    \A r \in Runners :
        /\ Len(InvocationsOf(r, "transcribe")) <= 1
        /\ Len(InvocationsOf(r, "generate")) <= 1
        /\ run[r].pc = "returned" => Len(InvocationsOf(r, "transcribe")) = 1
        /\ \A i \in DOMAIN Invocations(r) :
                Invocations(r)[i].outcome # None => i = Len(Invocations(r))

\* C22 witness: a direct run has returned failed after the generation
\* collaborator raised; each collaborator was invoked once.
C22_Witness ==
    /\ run["direct"].pc = "returned"
    /\ run["direct"].status = "failed"
    /\ Len(InvocationsOf("direct", "transcribe")) = 1
    /\ Len(InvocationsOf("direct", "generate")) = 1
    /\ InvocationsOf("direct", "generate")[1].outcome # None

\* C23: a subscriber to a job that exists receives the job's current record as
\* its first message; when that record is completed or failed the channel is
\* closed at once, nothing else is sent and no subscription is made.
C23_SnapshotFirst ==
    (ws.pc \notin {"idle", "got"} /\ ws.exit # "disconnect" /\ ws.atConnect # None) =>
        /\ ws.sent # <<>>
        /\ ws.sent[1] = ws.atConnect[1]
        /\ IsTerminal(ws.atConnect[1]) =>
              (ws.sub = "none" /\ Len(ws.sent) = 1 /\ ~ws.open)

\* The notifications published on the subscriber's channel since its snapshot
\* was read, as the client would see them.
PublishedSinceSnapshot ==
    [i \in 1..(Len(chan[ws.job_id]) - ws.chanAtSnap) |->
        JsonLoads(chan[ws.job_id][ws.chanAtSnap + i])]

\* C24: once the handler has relayed everything its subscription delivered,
\* the client has received, after the snapshot, every notification published
\* since the snapshot was read, in order and unchanged.
C24_NothingLost ==
    (ws.pc = "listening" /\ ws.client /\ ws.subAt + ws.read = Len(chan[ws.job_id])) =>
        Tail(ws.sent) = PublishedSinceSnapshot

\* C25: a relayed completed or failed notification is the last message sent
\* and the channel is closed with it, whatever is published afterwards.
C25_TerminalIsLast ==
    \A i \in DOMAIN ws.sent :
        (i > 1 /\ IsTerminal(ws.sent[i])) => (i = Len(ws.sent) /\ ~ws.open)

C25_Witness ==
    /\ ws.exit = "terminal"
    /\ IsTerminal(ws.sent[Len(ws.sent)])
    /\ Len(chan[ws.job_id]) > ws.subAt + ws.read

FloorHalf(p) == CHOOSE k \in 0..100 : 100 * k <= p * 50 /\ p * 50 < 100 * (k + 1)

C27_ProgressMapping ==
    LET a == prog.prev
        b == prog.last
    IN  /\ b.op = "transcription_progress" =>
              (b.value = FloorHalf(b.stage_percent) /\ b.value \in 0..50)
        /\ b.op = "generation_progress" =>
              (b.value = 50 + FloorHalf(b.stage_percent) /\ b.value \in 50..100)
        /\ (a.op = b.op /\ a.stage_percent <= b.stage_percent) => a.value <= b.value
        /\ (a.op = "transcription_progress" /\ a.stage_percent = 100
            /\ b.op = "generation_progress" /\ b.stage_percent = 0) =>
              (a.value = 50 /\ b.value = 50)

C27_Witness ==
    /\ prog.prev = HelperCall("transcription_progress", 100, 50)
    /\ prog.last = HelperCall("generation_progress", 0, 50)

\* C28: whatever the response, extraction returns a note whose four sections
\* are non-empty; a section whose header does not occur in the response, or
\* whose candidates all clean to 5 characters or fewer, is the sentinel.
HeaderAbsent(response, section) ==
    \A i \in DOMAIN response : response[i] # HeaderOf(section)

AllCandidatesShort(response, section) ==
    \A k \in DOMAIN Candidates(response, section) :
        CharLen(Candidates(response, section)[k]) <= 5

C28_SectionsNeverEmpty ==
    soap.op = "_parse_soap_response" =>
        /\ soap.raised = None
        /\ soap.note # None
        /\ \A i \in 1..4 :
              LET section == SectionNames[i]
                  content == soap.note[1][section]
              IN  /\ CharLen(content) > 0
                  /\ HeaderAbsent(soap.response, section) => content = Sentinel
                  /\ AllCandidatesShort(soap.response, section) => content = Sentinel

C28_Witness ==
    /\ soap.op = "_parse_soap_response"
    /\ Len(Candidates(soap.response, "subjective")) >= 2
    /\ AllCandidatesShort(soap.response, "subjective")
    /\ soap.note[1].subjective = Sentinel
    /\ HeaderAbsent(soap.response, "assessment")
    /\ soap.note[1].assessment = Sentinel
    /\ soap.note[1].objective # Sentinel

\* The bodies of a response laid out as CanonicalText lays it out: what stands
\* between each header line and the next.
FirstHeader(response, section) ==
    CHOOSE p \in DOMAIN response :
        /\ response[p] = HeaderOf(section)
        /\ \A q \in 1..(p - 1) : response[q] # HeaderOf(section)

BodiesOf(response) ==
    [i \in 1..4 |->
        SubSeq(response, FirstHeader(response, SectionNames[i]) + 2,
               (IF i = 4 THEN Len(response) + 2
                ELSE FirstHeader(response, SectionNames[i + 1])) - 2)]

IsCanonical(response) ==
    /\ \A i \in 1..4 : ~HeaderAbsent(response, SectionNames[i])
    /\ BodiesOf(response) \in BodyTuples
    /\ response = CanonicalText(BodiesOf(response))

PlainBody(body) ==
    /\ CharLen(body) > 5
    /\ \A i \in DOMAIN body : body[i] # "---"

C30_WarningsRetained ==
    (soap.op = "generate" /\ soap.note # None /\ soap.all_warnings # <<>>) =>
        \E f \in DOMAIN soap.note[1] \ {"subjective", "objective", "assessment", "plan"} :
            soap.note[1][f] = soap.all_warnings

\* The words the claim uses for the texts it speaks of.
ViolenceKeywords ==
    {"intimate partner violence", "ipv", "domestic violence", "domestic abuse",
     "partner abuse", "spousal abuse", "physical abuse", "assault", "violence by partner",
     "violence by spouse", "relationship violence"}

AbuserInclusionPhrases ==
    {"with partner", "with spouse", "with abuser", "include partner", "include spouse",
     "discuss with partner", "discuss with spouse", "involve partner", "involve spouse",
     "partner in safety", "spouse in safety"}

ViolenceContext(note) ==
    \E keyword \in ViolenceKeywords : Occurs(keyword, lower(Chars(note.assessment)))

IncludesAbuser(note) ==
    \E phrase \in AbuserInclusionPhrases : Occurs(phrase, lower(Chars(note.plan)))

CriticalSafetyWarning(w) == StartsAt(w, 1, "CRITICAL SAFETY ISSUE: IPV case")

ViolenceWarning(w) == CriticalSafetyWarning(w) \/ StartsAt(w, 1, "WARNING: IPV case")

\* C31: a safety validation of a note whose assessment holds no
\* interpersonal-violence keyword emits no violence-related warning, whatever
\* the plan holds; one of a note whose assessment holds such a keyword and
\* whose plan holds an abuser-inclusion phrase emits at least one critical
\* safety warning.
C31_SafetyPlanLeakage ==
    soap.op = "_validate_clinical_safety" =>
        /\ ~ViolenceContext(soap.note[1]) =>
              \A i \in DOMAIN soap.all_warnings : ~ViolenceWarning(soap.all_warnings[i])
        /\ ViolenceContext(soap.note[1]) /\ IncludesAbuser(soap.note[1]) =>
              \E i \in DOMAIN soap.all_warnings : CriticalSafetyWarning(soap.all_warnings[i])

\* A violence case whose plan includes the abuser has been validated, and so
\* has a plan with such a phrase in a note without violence context.
C31_Witness ==
    /\ soap.op = "_validate_clinical_safety"
    /\ ViolenceContext(soap.note[1])
    /\ IncludesAbuser(soap.note[1])
    /\ soap.note[1].plan = <<"Discuss with partner">>

\* The drugs and daily ceilings (mg) the claim names.
Ceilings ==
    <<<<"clonazepam", 2>>, <<"klonopin", 2>>, <<"lorazepam", 4>>, <<"ativan", 4>>,
      <<"alprazolam", 4>>, <<"xanax", 4>>>>

\* f stands in the lowered plan as a token: no letter or digit touches it.
FrequencyToken(plan_lower, f) ==
    LET Alnum(i) ==
            /\ i >= 1
            /\ i <= Len(plan_lower)
            /\ Occurs(SubSeq(plan_lower, i, i), "abcdefghijklmnopqrstuvwxyz0123456789")
    IN  \E i \in 1..Len(plan_lower) :
            StartsAt(plan_lower, i, f) /\ ~Alnum(i - 1) /\ ~Alnum(i + Len(f))

\* 2, 3 or 4 for a BID, TID or QID token, 1 when the plan holds none.
ClaimedMultiplier(plan_lower) ==
    IF FrequencyToken(plan_lower, "bid") THEN 2
    ELSE IF FrequencyToken(plan_lower, "tid") THEN 3
    ELSE IF FrequencyToken(plan_lower, "qid") THEN 4
    ELSE 1

\* The number of doses in the plan whose dose x multiplier exceeds the ceiling.
DosesOverCeiling(plan_lower) ==
    LET Over(max_dose, dose_str) ==
            StrInt(dose_str[1] \o dose_str[2]) * ClaimedMultiplier(plan_lower)
                > max_dose * Pow10(Len(dose_str[2]))
        OverIn(max_dose, matches) ==
            Cardinality({k \in DOMAIN matches : Over(max_dose, matches[k])})
        RECURSIVE Sum(_)
        Sum(i) ==
            IF i > Len(Ceilings) THEN 0
            ELSE OverIn(Ceilings[i][2], DoseMatches(plan_lower, Ceilings[i][1], 1)) + Sum(i + 1)
    IN  Sum(1)

HighDoseWarnings(all_warnings) ==
    Cardinality({i \in DOMAIN all_warnings :
                    StartsAt(all_warnings[i], 1, "HIGH-DOSE BENZODIAZEPINE")})

\* C32: a logic validation of a plan that holds at most one kind of
\* scheduled-frequency token emits one high-dose warning for each
\* benzodiazepine dose whose dose x multiplier exceeds the drug's ceiling, and
\* no other high-dose warning; the multiplier is 2, 3 or 4 for a BID, TID or
\* QID token and 1 when the plan holds no such token.
C32_DoseCeiling ==
    /\ soap.op = "_validate_clinical_logic"
    /\ Cardinality({f \in {"bid", "tid", "qid"} :
                       FrequencyToken(lower(Chars(soap.note[1].plan)), f)}) <= 1
    => HighDoseWarnings(soap.all_warnings)
            = DosesOverCeiling(lower(Chars(soap.note[1].plan)))

\* C33: a SOAP-only call, blocking (generate_soap_only) or non-blocking
\* (agenerate_soap_only), whose caller supplied a language has handed the
\* generator exactly that language.
C33_LanguageHandedOn ==
    (soap.op \in {"generate_soap_only", "agenerate_soap_only"} /\ soap.supplied # None) =>
        soap.language = soap.supplied

\* The text matched for the candidate that became the section's content.
ChosenGroup(response, section) ==
    LET Pick(matches, cleaned) ==
            matches[CHOOSE i \in DOMAIN cleaned : cleaned[i] = SectionContent(response, section)]
    IN  Pick(MatchesFrom(response, 1, section), Candidates(response, section))

\* C34: the text extracted for a section ends at the next section header of
\* any of the four kinds or at the end of the response: the match that
\* became a section's content holds no section header.
C34_EndsAtNextHeader ==
    soap.op = "_parse_soap_response" =>
        \A n \in 1..4 :
            soap.note[1][SectionNames[n]] # Sentinel =>
                \A i \in DOMAIN ChosenGroup(soap.response, SectionNames[n]) :
                    \A k \in 1..4 :
                        ChosenGroup(soap.response, SectionNames[n])[i]
                            # HeaderOf(SectionNames[k])

\* The block appended to a plan lists exactly these warnings, in this order,
\* under one title.
BlockLists(block, warnings) ==
    /\ SelectSeq(block, LAMBDA t : t \notin {"\n", "=", "VALIDATION WARNINGS"}) = warnings
    /\ Cardinality({i \in DOMAIN block : block[i] = "VALIDATION WARNINGS"}) = 1

\* g is what a generation leaves when the extractor gave parsed.
GeneratedFrom(g, parsed) ==
    /\ g.all_warnings = _validate_clinical_safety(parsed) \o _validate_clinical_logic(parsed)
    /\ g.all_warnings = <<>> => g.note[1] = parsed
    /\ g.all_warnings # <<>> =>
          /\ \A n \in 1..3 : g.note[1][SectionNames[n]] = parsed[SectionNames[n]]
          /\ Len(g.note[1].plan) > Len(parsed.plan)
          /\ SubSeq(g.note[1].plan, 1, Len(parsed.plan)) = parsed.plan
          /\ BlockLists(SubSeq(g.note[1].plan, Len(parsed.plan) + 1, Len(g.note[1].plan)),
                        g.all_warnings)

\* C35: a generation (generate, or agenerate behind agenerate_soap_only)
\* fails only for an empty transcription or a failing chain, never for a
\* warning; otherwise its warning list is the safety warnings followed by the
\* logic warnings, a non-empty list is appended to the plan as one block that
\* lists the warnings in that order, and with an empty list the four sections
\* are exactly the extracted ones.
C35_WarningsAppended ==
    soap.op \in {"generate", "generate_soap_only", "agenerate_soap_only"} =>
        IF soap.raised # None
        THEN soap.raised[1].cls = "TypeError"
             \/ soap.raised[1].details.reason \in {"Empty transcription provided", "ConnectionError"}
        ELSE GeneratedFrom(soap, _parse_soap_response(soap.response))

\* A generation returned a note with a safety warning followed by a logic
\* warning, on the blocking and on the non-blocking path.
C35_Witness ==
    /\ soap.op = "agenerate_soap_only"
    /\ soap.raised = None
    /\ Len(soap.all_warnings) = 2
    /\ StartsAt(soap.all_warnings[1], 1, "WARNING: IPV case")
    /\ StartsAt(soap.all_warnings[2], 1, "CLINICAL LOGIC ERROR")
    /\ soap.note[1].plan[1] = "ibuprofen 400 mg"
    /\ Len(soap.note[1].plan) > 1

\* The subscriber connected while its job was not terminal, is still being
\* served, and the job's record is now completed or failed.
AwaitsTerminal ==
    /\ ws.pc \in {"got", "subscribing", "listening"}
    /\ ws.snap # None
    /\ ~IsTerminal(ws.snap[1])
    /\ get_job("api", ws.job_id) # None
    /\ IsTerminal(get_job("api", ws.job_id)[1])

\* The client has a message with a terminal status and its channel is closed.
TerminalDelivered ==
    /\ ~ws.open
    /\ \E i \in DOMAIN ws.sent : IsTerminal(ws.sent[i])

\* C36: a subscriber that connected while the job was not terminal, and whose
\* job has become completed or failed, eventually has a message with the
\* terminal status and a closed channel, unless the client left or the
\* subscriber's connection to Redis failed.
C36_TerminalEventuallyDelivered ==
    AwaitsTerminal ~> (TerminalDelivered \/ ~ws.client \/ ws.exit = "store_error")

\* C37: without Redis, a job the submitting endpoint's JobManager holds is
\* found by the JobManager the task functions construct.
C37_FallbackStoreShared ==
    \A j \in JobIds :
        (~useRedis /\ get_job("api", j) # None) => get_job("worker", j) # None

\* C38: when process_audio_task or transcribe_audio_task has ended, by
\* returning or by raising, the temporary audio file is gone.
C38_TempFileDeleted ==
    \A j \in JobIds :
        (task[j].kind \in {"process", "transcribe"} /\ task[j].pc \in {"returned", "raised"}) =>
            ~file[j]

C40_ModelLoadedOnce ==
    /\ whisper.loads <= 1
    /\ \A t, u \in Threads :
          (whisper.thread[t].used # None /\ whisper.thread[u].used # None) =>
              whisper.thread[t].used = whisper.thread[u].used

====
